---- MODULE Spec2Model ----
(***************************************************************************)
(* Report Resolution & Shaping Engine of reportBuilder.                    *)
(*                                                                         *)
(* The handler generateReport (server/controllers/reportsController.js)   *)
(* is modelled as a state machine whose steps are the handler's           *)
(* synchronous stretches between two awaits of model.findAll.  The pure   *)
(* validators of the client (FieldValidationService) and of the earlier   *)
(* controller revision (validateFieldSelections, validateTableJoins) are  *)
(* operators, exercised by their own specifications.  The metrics store  *)
(* of the server AnalyticsService (recordEvent) and the client            *)
(* reportsService.generateReport are state machines of their own.         *)
(***************************************************************************)
EXTENDS Integers, Sequences, FiniteSets, TLC

\* ------------------------------------------------------------------ bounds
\* Longest list of collections in a request.
MaxTables == 2

\* Longest list of fields in a request.
MaxFields == 2

\* Longest field selection handed to the chart validation.
MaxSelected == 51

\* ------------------------------------------------------- JavaScript values
\* A JavaScript scalar: a number (the fraction n/d in lowest terms, d > 0),
\* a string, null, undefined or NaN.
NaN == [t |-> "NaN", n |-> 0, d |-> 1, s |-> ""]

Num(n) == [t |-> "number", n |-> n, d |-> 1, s |-> ""]

Str(s) == [t |-> "string", n |-> 0, d |-> 1, s |-> s]

Null == [t |-> "null", n |-> 0, d |-> 1, s |-> ""]

Undefined == [t |-> "undefined", n |-> 0, d |-> 1, s |-> ""]

\* Finite sequences over S of length at most n without repeated elements.
DistinctSeqs(S, n) ==
    UNION { { q \in [1..k -> S] : \A a, b \in 1..k : a # b => q[a] # q[b] } : k \in 0..n }

\* Array.prototype.includes
Includes(arr, x) == \E k \in 1..Len(arr) : arr[k] = x

\* Array.prototype.find: the first element that passes, else Undefined
\* (only used on arrays of strings, where "" stands for undefined).
FindFirst(arr, Test(_)) ==
    IF \E k \in 1..Len(arr) : Test(arr[k])
    THEN arr[CHOOSE k \in 1..Len(arr) : Test(arr[k]) /\ \A m \in 1..(k - 1) : ~Test(arr[m])]
    ELSE ""

\* -------------------------------------------------------------- catalog
\* Field-to-table mapping to validate field selections.
FIELD_TABLE_MAP ==
    [ productId   |-> <<"production", "defects", "sales">>,
      quantity    |-> <<"production">>,
      date        |-> <<"production", "defects", "sales">>,
      factory     |-> <<"production", "defects">>,
      shift       |-> <<"production">>,
      line        |-> <<"production">>,
      id          |-> <<"production", "defects", "sales">>,
      createdAt   |-> <<"production", "defects", "sales">>,
      updatedAt   |-> <<"production", "defects", "sales">>,
      defectCount |-> <<"defects">>,
      type        |-> <<"defects">>,
      severity    |-> <<"defects">>,
      inspector   |-> <<"defects">>,
      region      |-> <<"sales">>,
      amount      |-> <<"sales">>,
      customerId  |-> <<"sales">>,
      salesRep    |-> <<"sales">>,
      channel     |-> <<"sales">> ]

\* Property names every object literal inherits from Object.prototype: a
\* lookup FIELD_TABLE_MAP[name] yields the inherited member, which is truthy
\* and is not an array.
ObjectPrototypeKeys ==
    {"constructor", "toString", "valueOf", "hasOwnProperty", "__proto__"}

\* What the expression FIELD_TABLE_MAP[field] evaluates to.
\*   "array"     an own entry of the catalog (the owning tables)
\*   "inherited" a member inherited from Object.prototype
\*   "undefined" nothing
MapLookupKind(field) ==
    IF field \in DOMAIN FIELD_TABLE_MAP THEN "array"
    ELSE IF field \in ObjectPrototypeKeys THEN "inherited"
    ELSE "undefined"

\* owningTables(field): the tables the catalog lists for the field; a field
\* absent from the catalog is owned by no table.
OwningTables(field) ==
    IF field \in DOMAIN FIELD_TABLE_MAP
    THEN { FIELD_TABLE_MAP[field][k] : k \in 1..Len(FIELD_TABLE_MAP[field]) }
    ELSE {}

\* The models the server registers (collections: name -> model).
collections == {"production", "defects", "sales"}

\* ---------------------------------------------------------------- rows
\* A row is the list of its properties in Object.keys order.
Prop(k, v) == [k |-> k, v |-> v]

\* Object.keys(row)
Keys(row) == [p \in 1..Len(row) |-> row[p].k]

\* row[key]: undefined when the row has no such property.
Get(row, key) ==
    IF \E p \in 1..Len(row) : row[p].k = key
    THEN row[CHOOSE p \in 1..Len(row) : row[p].k = key].v
    ELSE Undefined

\* { ...row, _sourceTable: tableName }
WithSourceTable(row, tableName) ==
    SelectSeq(row, LAMBDA p : p.k # "_sourceTable") \o <<Prop("_sourceTable", Str(tableName))>>

\* ------------------------------------------------------------- storage
\* The storage collaborator: the rows each table holds (seedDatabase.js
\* fills production, defects and sales with rows of these columns).
Storage ==
    [ production |->
        << <<Prop("productId", Str("P1")), Prop("quantity", Num(5)),
             Prop("factory", Str("A")), Prop("date", Num(1))>>,
           <<Prop("productId", Str("P1")), Prop("quantity", Num(3)),
             Prop("factory", Str("B")), Prop("date", Num(2))>>,
           <<Prop("productId", Str("P2")), Prop("quantity", Num(2)),
             Prop("factory", Str("A")), Prop("date", Num(3))>> >>,
      defects |->
        << <<Prop("productId", Str("P1")), Prop("defectCount", Num(2)),
             Prop("factory", Str("A")), Prop("date", Num(1))>>,
           <<Prop("productId", Str("P3")), Prop("defectCount", Num(1)),
             Prop("factory", Str("B")), Prop("date", Num(5))>> >>,
      sales |->
        << <<Prop("productId", Str("P1")), Prop("amount", Num(10)),
             Prop("region", Str("North")), Prop("date", Num(1))>>,
           <<Prop("productId", Str("P2")), Prop("amount", Num(20)),
             Prop("region", Str("South")), Prop("date", Num(2))>> >> ]

\* The columns of a table: the fields the catalog lists for it.
Columns(table) == { f \in DOMAIN FIELD_TABLE_MAP : table \in OwningTables(f) }

\* A where clause maps column names to conditions.
Between(lo, hi) == [op |-> "between", lo |-> lo, hi |-> hi, val |-> ""]

Eq(val) == [op |-> "eq", lo |-> 0, hi |-> 0, val |-> val]

EmptyWhere == [k \in {} |-> Eq("")]

\* where[key] = cond, as an assignment to an object property.
SetKey(where, key, cond) ==
    [k \in DOMAIN where \cup {key} |-> IF k = key THEN cond ELSE where[k]]

\* Whether a stored row satisfies every condition of a where clause.
Matches(row, where) ==
    \A k \in DOMAIN where :
        IF where[k].op = "between"
        THEN /\ Get(row, k).t = "number"
             /\ where[k].lo <= Get(row, k).n
             /\ Get(row, k).n <= where[k].hi
        ELSE Get(row, k) = Str(where[k].val)

\* A where clause on a column the table does not have makes the database
\* reject the query.
QueryIsWellFormed(table, options) ==
    /\ table \in collections
    /\ DOMAIN options.where \subseteq Columns(table)
    /\ \A a \in 1..Len(options.attributes) : options.attributes[a] \in Columns(table)

\* model.findAll(options) when it succeeds: the matching rows, each reduced
\* to the requested attributes (raw: true).
FindAll(table, options) ==
    LET hits == SelectSeq(Storage[table], LAMBDA row : Matches(row, options.where))
    IN  [r \in 1..Len(hits) |->
            [a \in 1..Len(options.attributes) |->
                Prop(options.attributes[a], Get(hits[r], options.attributes[a]))]]

\* ------------------------------------------------------------ requests
\* Table names a request may carry; "inventory" is a table nobody knows.
RequestTables == {"production", "defects", "sales", "inventory"}

\* Field names a request may carry; "bogus" is in no catalog, "constructor"
\* is in no catalog but names a member every object inherits.
RequestFields == {"productId", "quantity", "defectCount", "bogus", "constructor"}

\* filters: dateRange.start/end (0 stands for a missing bound), factory,
\* region, productId ("" stands for a missing value); present = FALSE is a
\* request without a filters object.
Filters(start, end, factory, region, productId) ==
    [present |-> TRUE, start |-> start, end |-> end,
     factory |-> factory, region |-> region, productId |-> productId]

NoFilters ==
    [present |-> FALSE, start |-> 0, end |-> 0,
     factory |-> "", region |-> "", productId |-> ""]

RequestFilters ==
    { NoFilters,
      Filters(0, 0, "", "", ""),
      Filters(1, 2, "", "", ""),
      Filters(1, 0, "", "", ""),
      Filters(0, 0, "A", "", ""),
      Filters(0, 0, "", "North", ""),
      Filters(0, 0, "", "", "P1"),
      Filters(1, 2, "A", "North", "P1") }

\* visualization: type and hints ("" and <<>> stand for a hint not given);
\* present = FALSE is a request without a visualization object.
Visualization(type) ==
    [present |-> TRUE, type |-> type, xAxis |-> "", yAxis |-> "",
     groupBy |-> "", valueFields |-> <<>>]

NoVisualization ==
    [present |-> FALSE, type |-> "", xAxis |-> "", yAxis |-> "",
     groupBy |-> "", valueFields |-> <<>>]

RequestVisualizations ==
    { NoVisualization, Visualization("table"), Visualization("grouped-table"),
      Visualization("multi-bar"), Visualization("bar") }

\* dataModel.aggregations
RequestAggregations ==
    { <<>>, << [type |-> "sum", field |-> "quantity", groupBy |-> "productId"] >> }

\* req.body
Requests ==
    [ collections   : DistinctSeqs(RequestTables, MaxTables),
      fields        : DistinctSeqs(RequestFields, MaxFields),
      aggregations  : RequestAggregations,
      visualization : RequestVisualizations,
      filters       : RequestFilters ]

\* ------------------------------------------------- JavaScript coercions
\* Numbers whose decimal form may occur as a string in a row.
ParsableNumbers == 0..60

\* String(v); a number that is not an integer is written n/d, which stands
\* for its decimal form.
JsString(v) ==
    CASE v.t = "string"    -> v.s
      [] v.t = "number"    -> IF v.d = 1 THEN ToString(v.n)
                              ELSE ToString(v.n) \o "/" \o ToString(v.d)
      [] v.t = "null"      -> "null"
      [] v.t = "undefined" -> "undefined"
      [] OTHER             -> "NaN"

\* Truthiness: null, undefined, NaN, 0 and "" are falsy.
Truthy(v) ==
    CASE v.t = "string" -> v.s # ""
      [] v.t = "number" -> v.n # 0
      [] OTHER          -> FALSE

\* parseFloat(v): v is turned into a string first; a string that is not the
\* decimal form of a number gives NaN.
ParseFloat(v) ==
    LET str == JsString(v)
    IN  IF v.t = "number" THEN v
        ELSE IF \E n \in ParsableNumbers : ToString(n) = str
        THEN Num(CHOOSE n \in ParsableNumbers : ToString(n) = str)
        ELSE NaN

\* typeof v === 'number' ? v : (parseFloat(v) || 0)
NumberOrZero(v) ==
    IF v.t = "number" THEN v
    ELSE IF Truthy(ParseFloat(v)) THEN ParseFloat(v) ELSE Num(0)

\* The greatest common divisor of two naturals.
RECURSIVE Gcd(_, _)
Gcd(a, b) == IF b = 0 THEN a ELSE Gcd(b, a % b)

Abs(a) == IF a < 0 THEN -a ELSE a

\* The number n/d (d > 0) in lowest terms.
Fraction(n, d) ==
    LET g == Gcd(Abs(n), d)
    IN  [t |-> "number", n |-> n \div g, d |-> d \div g, s |-> ""]

\* ToNumber(v): null and "" are 0, a string is the number it spells or NaN,
\* undefined is NaN.
ToNumber(v) ==
    CASE v.t = "number" -> v
      [] v.t = "null"   -> Num(0)
      [] v.t = "string" -> IF v.s = "" THEN Num(0) ELSE ParseFloat(v)
      [] OTHER          -> NaN

\* a + b: concatenation as soon as one operand is a string.
JsAdd(a, b) ==
    IF a.t = "string" \/ b.t = "string" THEN Str(JsString(a) \o JsString(b))
    ELSE IF ToNumber(a).t = "NaN" \/ ToNumber(b).t = "NaN" THEN NaN
    ELSE Fraction(ToNumber(a).n * ToNumber(b).d + ToNumber(b).n * ToNumber(a).d,
                  ToNumber(a).d * ToNumber(b).d)

\* a / b for a divisor that is a positive number.
JsDivide(a, b) ==
    IF ToNumber(a).t = "NaN" THEN NaN
    ELSE Fraction(ToNumber(a).n * b.d, ToNumber(a).d * b.n)

\* ------------------------------------------------------- payload shaper
\* Keep a reasonable max length: labels.slice(0, 50)
MaxLabels == 50

Slice_KeepsAll(arr, n) == arr

\* arr.slice(0, n)
Slice(arr, n) == SubSeq(arr, 1, IF Len(arr) < n THEN Len(arr) ELSE n)

\* The first occurrences of the elements of a list, in order.
Unique(arr) ==
    LET firsts == { k \in 1..Len(arr) : \A m \in 1..(k - 1) : arr[m] # arr[k] }
        Nth(i) == CHOOSE k \in firsts : Cardinality({ m \in firsts : m < k }) = i - 1
    IN  [i \in 1..Cardinality(firsts) |-> arr[Nth(i)]]

\* Whether a property name is an integer index, which Object.keys lists
\* before every other name, in ascending order.
IsIndexKey(key) == \E n \in ParsableNumbers : ToString(n) = key

IndexOfKey(key) == CHOOSE n \in ParsableNumbers : ToString(n) = key

\* Object.keys of an object whose properties were created in the given
\* order: integer indices ascending, then the other names as created.
RECURSIVE Ascending(_)
Ascending(S) ==
    IF S = {} THEN <<>>
    ELSE LET least == CHOOSE n \in S : \A m \in S : n <= m
         IN  <<ToString(least)>> \o Ascending(S \ {least})

ObjectKeys(created) ==
    Ascending({ IndexOfKey(created[c]) : c \in { d \in 1..Len(created) : IsIndexKey(created[d]) } })
        \o SelectSeq(created, LAMBDA key : ~IsIndexKey(key))

\* const xField = (visualization && visualization.xAxis) || fields[0]
XField(fields, visualization) ==
    IF visualization.xAxis # "" THEN visualization.xAxis ELSE fields[1]

\* yField: the explicit yAxis, else the second field, else the first field
\* with a number in the data, else the first field.
YField(rows, fields, visualization) ==
    IF visualization.yAxis # "" THEN visualization.yAxis
    ELSE IF Len(fields) > 1 THEN fields[2]
    ELSE LET numeric ==
                 FindFirst(fields, LAMBDA f :
                     \E r \in 1..Len(rows) : Get(rows[r], f).t = "number")
         IN  IF numeric # "" THEN numeric ELSE fields[1]

\* visualization.type === 'table'
ShapeTable(rows, fields) ==
    [type |-> "table", data |-> rows, fields |-> fields, totalRecords |-> Len(rows)]

GroupKey_NoSentinel(row, groupBy) == JsString(Get(row, groupBy))

\* The group key of a row of a grouped table.
GroupKey(row, groupBy) ==
    IF Get(row, groupBy).t \notin {"undefined", "null"}
    THEN JsString(Get(row, groupBy))
    ELSE "Unspecified"

\* visualization.type === 'grouped-table'
ShapeGroupedTable(rows, fields, visualization) ==
    LET groupBy ==
            IF visualization.groupBy # "" THEN visualization.groupBy
            ELSE IF visualization.xAxis # "" THEN visualization.xAxis
            ELSE fields[1]
        columns ==
            IF Len(rows) > 0
            THEN SelectSeq(Keys(rows[1]), LAMBDA k : k # "_sourceTable")
            ELSE fields
        created == Unique([r \in 1..Len(rows) |-> GroupKey(rows[r], groupBy)])
        names == ObjectKeys(created)
    IN  [type |-> "grouped-table",
         groupBy |-> groupBy,
         columns |-> columns,
         groups |-> [g \in 1..Len(names) |->
                        [key |-> names[g],
                         rows |-> SelectSeq(rows, LAMBDA row : GroupKey(row, groupBy) = names[g])]],
         totalRecords |-> Len(rows)]

\* row._sourceTable || 'unknown'
SourceTableOf(row) ==
    IF Truthy(Get(row, "_sourceTable")) THEN Get(row, "_sourceTable").s ELSE "unknown"

\* The label of a row in a cross-table comparison.
CrossTableLabel(row, xField) ==
    IF Get(row, xField).t \notin {"undefined", "null"}
    THEN JsString(Get(row, xField))
    ELSE "N/A"

\* tableName.charAt(0).toUpperCase() + tableName.slice(1)
Capitalize(tableName) ==
    CASE tableName = "production" -> "Production"
      [] tableName = "defects"    -> "Defects"
      [] tableName = "sales"      -> "Sales"
      [] tableName = "inventory"  -> "Inventory"
      [] tableName = "unknown"    -> "Unknown"
      [] OTHER                    -> tableName

\* Whether the catalog lists the field for the table.
OwnedBy(field, tableName) ==
    MapLookupKind(field) = "array" /\ Includes(FIELD_TABLE_MAP[field], tableName)

\* The best Y field of a table: an explicit value field the table owns, else
\* a requested field the table owns that has a value in some row, else a
\* requested field the table owns ("" stands for undefined).
TableYField(tableName, tableData, fields, visualization) ==
    LET explicit == FindFirst(visualization.valueFields, LAMBDA f : OwnedBy(f, tableName))
        valued ==
            FindFirst(fields, LAMBDA f :
                /\ OwnedBy(f, tableName)
                /\ \E r \in 1..Len(tableData) :
                       Get(tableData[r], f).t \notin {"undefined", "null"})
        owned == FindFirst(fields, LAMBDA f : OwnedBy(f, tableName))
    IN  IF explicit # "" THEN explicit
        ELSE IF valued # "" THEN valued
        ELSE owned

\* visualization.type === 'multi-bar' with more than one collection
ShapeMultiBar(rows, fields, visualization, tableCount) ==
    LET xField == XField(fields, visualization)
        tables == ObjectKeys(Unique([r \in 1..Len(rows) |-> SourceTableOf(rows[r])]))
        labels == Unique([r \in 1..Len(rows) |-> CrossTableLabel(rows[r], xField)])
        finalLabels == Slice(labels, MaxLabels)
        TableData(tableName) == SelectSeq(rows, LAMBDA row : SourceTableOf(row) = tableName)
        Value(tableName, label) ==
            LET tableData == TableData(tableName)
                found == { r \in 1..Len(tableData) : JsString(Get(tableData[r], xField)) = label }
                yField == TableYField(tableName, tableData, fields, visualization)
            IN  IF found = {} THEN Num(0)
                ELSE LET match == tableData[CHOOSE r \in found : \A q \in found : r <= q]
                     IN  NumberOrZero(IF yField # "" THEN Get(match, yField) ELSE Undefined)
    IN  [type |-> "multi-bar",
         labels |-> labels,
         datasets |-> [d \in 1..Len(tables) |->
                          [label |-> Capitalize(tables[d]),
                           data |-> [l \in 1..Len(finalLabels) |-> Value(tables[d], finalLabels[l])]]],
         debugInfo |-> [d \in 1..Len(tables) |->
                          [table |-> tables[d],
                           chosenYField |->
                               TableYField(tables[d], TableData(tables[d]), fields, visualization)]],
         totalRecords |-> Len(rows),
         tableCount |-> tableCount]

\* Standard single chart (bar/line/pie etc.)
ShapeChart(rows, fields, visualization) ==
    LET xField == XField(fields, visualization)
        yField == YField(rows, fields, visualization)
        labels ==
            Slice([r \in 1..Len(rows) |->
                      IF Truthy(Get(rows[r], xField))
                      THEN JsString(Get(rows[r], xField)) ELSE "N/A"], MaxLabels)
        values ==
            Slice([r \in 1..Len(rows) |-> NumberOrZero(Get(rows[r], yField))], MaxLabels)
    IN  [type |-> visualization.type,
         labels |-> labels,
         datasets |-> << [label |-> yField, data |-> values] >>,
         totalRecords |-> Len(rows)]

\* Format data for visualization: reportData
Shape(rows, fields, visualization, tableCount) ==
    IF visualization.type = "table" THEN ShapeTable(rows, fields)
    ELSE IF visualization.type = "grouped-table" THEN ShapeGroupedTable(rows, fields, visualization)
    ELSE IF visualization.type = "multi-bar" /\ tableCount > 1
    THEN ShapeMultiBar(rows, fields, visualization, tableCount)
    ELSE ShapeChart(rows, fields, visualization)

\* groups[key] = groups[key] || []; groups[key].push(row): groups is an
\* object literal, so for a key that names a member of Object.prototype
\* groups[key] is that member and push is not a function.
ShapeThrows(rows, fields, visualization, tableCount) ==
    /\ visualization.type = "grouped-table"
    /\ \E r \in 1..Len(rows) :
           GroupKey(rows[r],
                    IF visualization.groupBy # "" THEN visualization.groupBy
                    ELSE IF visualization.xAxis # "" THEN visualization.xAxis
                    ELSE fields[1]) \in ObjectPrototypeKeys

\* --------------------------------------------------- aggregation applier
\* row[key] = value: a new property is added last, an old one keeps its
\* place.
SetProp(row, key, value) ==
    IF \E p \in 1..Len(row) : row[p].k = key
    THEN [p \in 1..Len(row) |-> IF row[p].k = key THEN Prop(key, value) ELSE row[p]]
    ELSE Append(row, Prop(key, value))

\* The accumulator of a reduce over rows: the properties of acc in the
\* order of their creation, name |-> the property name, obj |-> its value.
\* groupAndSum: acc[key] is created as { [groupBy]: key, [sumField]: 0,
\* count: 0 }, then acc[key][sumField] += item[sumField] || 0 and
\* acc[key].count += 1.
RECURSIVE SumAccumulator(_, _, _)
SumAccumulator(rows, groupBy, sumField) ==
    IF rows = <<>> THEN <<>>
    ELSE LET acc == SumAccumulator(SubSeq(rows, 1, Len(rows) - 1), groupBy, sumField)
             item == rows[Len(rows)]
             key == Get(item, groupBy)
             name == JsString(key)
             fresh == SetProp(SetProp(SetProp(<<>>, groupBy, key), sumField, Num(0)),
                              "count", Num(0))
             with == IF \E g \in 1..Len(acc) : acc[g].name = name
                     THEN acc ELSE Append(acc, [name |-> name, obj |-> fresh])
             Step(obj) ==
                 LET summed ==
                         SetProp(obj, sumField,
                             JsAdd(Get(obj, sumField),
                                   IF Truthy(Get(item, sumField))
                                   THEN Get(item, sumField) ELSE Num(0)))
                 IN  SetProp(summed, "count", JsAdd(Get(summed, "count"), Num(1)))
         IN  [g \in 1..Len(with) |->
                 IF with[g].name = name
                 THEN [name |-> name, obj |-> Step(with[g].obj)]
                 ELSE with[g]]

\* Object.values(grouped)
ObjectValues(acc) ==
    LET names == ObjectKeys([g \in 1..Len(acc) |-> acc[g].name])
    IN  [v \in 1..Len(names) |->
            acc[CHOOSE g \in 1..Len(acc) : acc[g].name = names[v]].obj]

groupAndSum(rows, groupBy, sumField) ==
    ObjectValues(SumAccumulator(rows, groupBy, sumField))

\* groupAndCount: acc[key] is created as { [groupBy]: key, count: 0 }, then
\* acc[key].count += 1.
RECURSIVE CountAccumulator(_, _)
CountAccumulator(rows, groupBy) ==
    IF rows = <<>> THEN <<>>
    ELSE LET acc == CountAccumulator(SubSeq(rows, 1, Len(rows) - 1), groupBy)
             item == rows[Len(rows)]
             key == Get(item, groupBy)
             name == JsString(key)
             fresh == SetProp(SetProp(<<>>, groupBy, key), "count", Num(0))
             with == IF \E g \in 1..Len(acc) : acc[g].name = name
                     THEN acc ELSE Append(acc, [name |-> name, obj |-> fresh])
         IN  [g \in 1..Len(with) |->
                 IF with[g].name = name
                 THEN [name |-> name,
                       obj |-> SetProp(with[g].obj, "count",
                                       JsAdd(Get(with[g].obj, "count"), Num(1)))]
                 ELSE with[g]]

groupAndCount(rows, groupBy) ==
    ObjectValues(CountAccumulator(rows, groupBy))

\* groupAndAverage: the sums, each divided by its count when count > 0.
groupAndAverage(rows, groupBy, avgField) ==
    LET grouped == groupAndSum(rows, groupBy, avgField)
    IN  [g \in 1..Len(grouped) |->
            SetProp(grouped[g], avgField,
                IF Get(grouped[g], "count").t = "number" /\ Get(grouped[g], "count").n > 0
                THEN JsDivide(Get(grouped[g], avgField), Get(grouped[g], "count"))
                ELSE Num(0))]

\* One aggregation applied to the result of the ones before it.
ApplyAggregation(result, agg) ==
    CASE agg.type = "sum" /\ agg.field # "" /\ agg.groupBy # "" ->
            groupAndSum(result, agg.groupBy, agg.field)
      [] agg.type = "count" /\ agg.groupBy # "" ->
            groupAndCount(result, agg.groupBy)
      [] agg.type = "average" /\ agg.field # "" /\ agg.groupBy # "" ->
            groupAndAverage(result, agg.groupBy, agg.field)
      [] OTHER -> result

\* applyAggregations: let result = [...data]; every aggregation replaces
\* result by its groups.
RECURSIVE applyAggregations(_, _)
applyAggregations(rows, aggregations) ==
    IF aggregations = <<>> THEN rows
    ELSE ApplyAggregation(
             applyAggregations(rows, SubSeq(aggregations, 1, Len(aggregations) - 1)),
             aggregations[Len(aggregations)])

\* ------------------------------------------------------------ validation
\* dataModel.collections sent as the string 'production' instead of an
\* array: the handler reads its length, iterates it and indexes it, which
\* yields its characters one by one.
ProductionString == <<"p", "r", "o", "d", "u", "c", "t", "i", "o", "n">>

\* typeof selectedCollections === 'string' (no table name has one letter)
IsString(selectedTables) == selectedTables = ProductionString

\* selectedCollections.includes(table): membership for an array, substring
\* for a string (no other table name is part of 'production').
CollectionsInclude(selectedTables, table) ==
    IF IsString(selectedTables) THEN table = "production" ELSE Includes(selectedTables, table)

\* The compatible tables of a field: availableTables.filter(table =>
\* selectedCollections.includes(table))
CompatibleTables(field, selectedTables) ==
    SelectSeq(FIELD_TABLE_MAP[field], LAMBDA table : CollectionsInclude(selectedTables, table))

\* What the validation loop does with one field: nothing ("none"), push an
\* error ("unknown", "unavailable"), or throw because the looked-up value
\* has no filter method ("throws").
FieldOutcome(field, selectedTables) ==
    CASE MapLookupKind(field) = "undefined" -> "unknown"
      [] MapLookupKind(field) = "inherited" -> "throws"
      [] OTHER ->
            IF Len(CompatibleTables(field, selectedTables)) = 0 THEN "unavailable" ELSE "none"

\* A validation loop that reports unknown fields only and leaves out the
\* check of the compatible tables.
FieldErrors_UnknownOnly(fields, selectedTables) ==
    LET outcomes ==
            [f \in 1..Len(fields) |->
                [kind |-> IF MapLookupKind(fields[f]) = "undefined" THEN "unknown" ELSE "none",
                 field |-> fields[f]]]
    IN  SelectSeq(outcomes, LAMBDA e : e.kind # "none")

\* The errors array after fields.forEach, when no iteration throws.
FieldErrors(fields, selectedTables) ==
    LET outcomes ==
            [f \in 1..Len(fields) |->
                [kind |-> FieldOutcome(fields[f], selectedTables), field |-> fields[f]]]
    IN  SelectSeq(outcomes, LAMBDA e : e.kind # "none")

\* Whether fields.forEach throws a TypeError.
FieldValidationThrows(fields, selectedTables) ==
    \E f \in 1..Len(fields) : FieldOutcome(fields[f], selectedTables) = "throws"

\* Table relationship mapping for intelligent joins.
TABLE_RELATIONSHIPS ==
    [ production |->
        [canJoinWith |-> <<"defects", "sales">>,
         commonFields |-> [defects |-> <<"productId", "factory", "date">>,
                           sales   |-> <<"productId", "date">>]],
      defects |->
        [canJoinWith |-> <<"production", "sales">>,
         commonFields |-> [production |-> <<"productId", "factory", "date">>,
                           sales      |-> <<"productId", "date">>]],
      sales |->
        [canJoinWith |-> <<"production", "defects">>,
         commonFields |-> [production |-> <<"productId", "date">>,
                           defects    |-> <<"productId", "date">>]] ]

\* The errors validateTableJoins pushes while table1 is the table at
\* position i: "Unknown table" for a table without relationships, else one
\* "Cannot join" per later table that is not in canJoinWith.
JoinErrorsAt(selectedTables, i) ==
    LET table1 == selectedTables[i]
        later == [j \in 1..(Len(selectedTables) - i) |-> selectedTables[i + j]]
    IN  IF table1 \notin DOMAIN TABLE_RELATIONSHIPS
        THEN << [kind |-> "unknown_table", tables |-> <<table1>>] >>
        ELSE LET unrelated ==
                     SelectSeq(later, LAMBDA table2 :
                         ~Includes(TABLE_RELATIONSHIPS[table1].canJoinWith, table2))
             IN  [j \in 1..Len(unrelated) |->
                     [kind |-> "cannot_join", tables |-> <<table1, unrelated[j]>>]]

RECURSIVE JoinErrorsFrom(_, _)
JoinErrorsFrom(selectedTables, i) ==
    IF i > Len(selectedTables) THEN <<>>
    ELSE JoinErrorsAt(selectedTables, i) \o JoinErrorsFrom(selectedTables, i + 1)

\* Helper function to validate table joins.
validateTableJoins(selectedTables) ==
    IF Len(selectedTables) < 2
    THEN [isValid |-> TRUE, errors |-> <<>>]
    ELSE [isValid |-> Len(JoinErrorsFrom(selectedTables, 1)) = 0,
          errors |-> JoinErrorsFrom(selectedTables, 1)]

\* --------------------------------------------- client: chart validation
\* Chart type compatibility rules.
CHART_COMPATIBILITY ==
    [ bar |->
        [name |-> "Bar Chart", xAxis |-> <<"string", "object">>, yAxis |-> <<"number">>,
         minFields |-> 2, maxFields |-> 10],
      multi_bar |->
        [name |-> "Multi-Series Bar", xAxis |-> <<"string", "object">>, yAxis |-> <<"number">>,
         minFields |-> 3, maxFields |-> 15],
      comparison_chart |->
        [name |-> "Cross-Table Compare", xAxis |-> <<"string", "object">>,
         yAxis |-> <<"number">>, minFields |-> 2, maxFields |-> 12],
      grouped_table |->
        [name |-> "Grouped Table", xAxis |-> <<"string", "object">>,
         yAxis |-> <<"string", "number", "object">>, minFields |-> 2, maxFields |-> 50],
      line |->
        [name |-> "Line Chart", xAxis |-> <<"object", "string">>, yAxis |-> <<"number">>,
         minFields |-> 2, maxFields |-> 5],
      pie |->
        [name |-> "Pie Chart", xAxis |-> <<"string">>, yAxis |-> <<"number">>,
         minFields |-> 2, maxFields |-> 2],
      table |->
        [name |-> "Table", xAxis |-> <<"string", "number", "object">>,
         yAxis |-> <<"string", "number", "object">>, minFields |-> 1, maxFields |-> 20] ]

\* The key of a chart type in CHART_COMPATIBILITY ('multi-bar' and the
\* like are written with an underscore here).
ChartKey(chartType) ==
    CASE chartType = "multi-bar"        -> "multi_bar"
      [] chartType = "comparison-chart" -> "comparison_chart"
      [] chartType = "grouped-table"    -> "grouped_table"
      [] OTHER                          -> chartType

\* A finding of a validator: its kind and the tables it names.
Finding(kind, tables) == [kind |-> kind, tables |-> tables]

\* FieldValidationService.validateTableJoins while table1 is the table at
\* position i: the errors and warnings it pushes.
ClientJoinFindingsAt(selectedTables, selectedFields, i) ==
    LET table1 == selectedTables[i]
        later == [j \in 1..(Len(selectedTables) - i) |-> selectedTables[i + j]]
        Linked(table2) == Includes(TABLE_RELATIONSHIPS[table1].canJoinWith, table2)
        CommonFields(table2) ==
            IF table2 \in DOMAIN TABLE_RELATIONSHIPS[table1].commonFields
            THEN TABLE_RELATIONSHIPS[table1].commonFields[table2] ELSE <<>>
        AvailableJoinFields(table2) ==
            SelectSeq(selectedFields, LAMBDA field :
                /\ Includes(CommonFields(table2), field.name)
                /\ (field.collection = table1 \/ field.collection = table2))
    IN  IF table1 \notin DOMAIN TABLE_RELATIONSHIPS
        THEN [errors |-> <<Finding("unknown_table", <<table1>>)>>, warnings |-> <<>>]
        ELSE LET unrelated == SelectSeq(later, LAMBDA table2 : ~Linked(table2))
                 loose == SelectSeq(later, LAMBDA table2 :
                              Linked(table2) /\ Len(AvailableJoinFields(table2)) = 0)
             IN  [errors |-> [j \in 1..Len(unrelated) |->
                                 Finding("cannot_join", <<table1, unrelated[j]>>)],
                  warnings |-> [j \in 1..Len(loose) |->
                                   Finding("no_common_fields", <<table1, loose[j]>>)]]

RECURSIVE ClientJoinFindingsFrom(_, _, _)
ClientJoinFindingsFrom(selectedTables, selectedFields, i) ==
    IF i > Len(selectedTables) THEN [errors |-> <<>>, warnings |-> <<>>]
    ELSE LET here == ClientJoinFindingsAt(selectedTables, selectedFields, i)
             rest == ClientJoinFindingsFrom(selectedTables, selectedFields, i + 1)
         IN  [errors |-> here.errors \o rest.errors,
              warnings |-> here.warnings \o rest.warnings]

\* FieldValidationService.validateTableJoins
FieldValidationService_validateTableJoins(selectedTables, selectedFields) ==
    LET found ==
            IF Len(selectedTables) < 2 THEN [errors |-> <<>>, warnings |-> <<>>]
            ELSE ClientJoinFindingsFrom(selectedTables, selectedFields, 1)
    IN  [isValid |-> Len(found.errors) = 0, errors |-> found.errors,
         warnings |-> found.warnings]

\* A validator that treats the maximum field count as a hard limit: the
\* overflow is pushed to the errors.
validateFieldsForChart_HardLimit(selectedFields, chartType, selectedTables) ==
    IF ChartKey(chartType) \notin DOMAIN CHART_COMPATIBILITY
    THEN [isValid |-> FALSE, errors |-> <<Finding("unknown_chart_type", <<>>)>>,
          warnings |-> <<>>]
    ELSE LET rules == CHART_COMPATIBILITY[ChartKey(chartType)]
             minimum ==
                 IF Len(selectedFields) < rules.minFields
                 THEN <<Finding("minFields", <<>>)>> ELSE <<>>
             maximum ==
                 IF Len(selectedFields) > rules.maxFields
                 THEN <<Finding("maxFields", <<>>)>> ELSE <<>>
             xAxisFields ==
                 SelectSeq(selectedFields, LAMBDA field : Includes(rules.xAxis, field.type))
             yAxisFields ==
                 SelectSeq(selectedFields, LAMBDA field : Includes(rules.yAxis, field.type))
             axes ==
                 IF chartType # "table" /\ Len(selectedFields) >= 2
                 THEN (IF Len(xAxisFields) = 0 THEN <<Finding("xAxis", <<>>)>> ELSE <<>>)
                      \o (IF Len(yAxisFields) = 0 THEN <<Finding("yAxis", <<>>)>> ELSE <<>>)
                 ELSE <<>>
             joins == FieldValidationService_validateTableJoins(selectedTables, selectedFields)
             errors ==
                 minimum \o maximum \o axes
                 \o (IF Len(selectedTables) > 1 /\ ~joins.isValid THEN joins.errors ELSE <<>>)
             warnings ==
                 IF Len(selectedTables) > 1 /\ joins.isValid THEN joins.warnings ELSE <<>>
         IN  [isValid |-> Len(errors) = 0, errors |-> errors, warnings |-> warnings]

\* FieldValidationService.validateFieldsForChart
validateFieldsForChart(selectedFields, chartType, selectedTables) ==
    IF ChartKey(chartType) \notin DOMAIN CHART_COMPATIBILITY
    THEN [isValid |-> FALSE, errors |-> <<Finding("unknown_chart_type", <<>>)>>,
          warnings |-> <<>>]
    ELSE LET rules == CHART_COMPATIBILITY[ChartKey(chartType)]
             minimum ==
                 IF Len(selectedFields) < rules.minFields
                 THEN <<Finding("minFields", <<>>)>> ELSE <<>>
             maximum ==
                 IF Len(selectedFields) > rules.maxFields
                 THEN <<Finding("maxFields", <<>>)>> ELSE <<>>
             xAxisFields ==
                 SelectSeq(selectedFields, LAMBDA field : Includes(rules.xAxis, field.type))
             yAxisFields ==
                 SelectSeq(selectedFields, LAMBDA field : Includes(rules.yAxis, field.type))
             axes ==
                 IF chartType # "table" /\ Len(selectedFields) >= 2
                 THEN (IF Len(xAxisFields) = 0 THEN <<Finding("xAxis", <<>>)>> ELSE <<>>)
                      \o (IF Len(yAxisFields) = 0 THEN <<Finding("yAxis", <<>>)>> ELSE <<>>)
                 ELSE <<>>
             joins == FieldValidationService_validateTableJoins(selectedTables, selectedFields)
             errors ==
                 minimum \o axes
                 \o (IF Len(selectedTables) > 1 /\ ~joins.isValid THEN joins.errors ELSE <<>>)
             warnings ==
                 maximum
                 \o (IF Len(selectedTables) > 1 /\ joins.isValid THEN joins.warnings ELSE <<>>)
         IN  [isValid |-> Len(errors) = 0, errors |-> errors, warnings |-> warnings]

\* ------------------------------------------------------------- analytics
\* Array.prototype.sort on table names (generateQueryCacheKey sorts
\* queryData.tables, which is the request's own collections array).
TableRank(tableName) ==
    CASE tableName = "defects"    -> 1
      [] tableName = "inventory"  -> 2
      [] tableName = "production" -> 3
      [] OTHER                    -> 4

RECURSIVE SortTables(_)
SortTables(tables) ==
    IF tables = <<>> THEN <<>>
    ELSE LET least ==
                 CHOOSE k \in 1..Len(tables) :
                     \A m \in 1..Len(tables) : TableRank(tables[k]) <= TableRank(tables[m])
         IN  <<tables[least]>>
                 \o SortTables(SubSeq(tables, 1, least - 1) \o SubSeq(tables, least + 1, Len(tables)))

\* ---------------------------------------------------------------- errors
\* Errors the handler can meet: name, message, and the table the message
\* names ("" when it names none).
TypeError ==
    [name |-> "TypeError", message |-> "availableTables.filter is not a function", table |-> ""]

\* generateQueryCacheKey: (queryData.tables || []).sort() on a string
SortTypeError ==
    [name |-> "TypeError", message |-> "(queryData.tables || []).sort is not a function",
     table |-> ""]

PushTypeError ==
    [name |-> "TypeError", message |-> "groups[key].push is not a function", table |-> ""]

UnknownColumnError ==
    [name |-> "SequelizeDatabaseError", message |-> "Unknown column in where clause", table |-> ""]

MissingTableError(table) ==
    [name |-> "SequelizeDatabaseError", message |-> "Table doesn't exist", table |-> table]

ConnectionError ==
    [name |-> "SequelizeConnectionError", message |-> "connect ECONNREFUSED", table |-> ""]

ColumnError ==
    [name |-> "Error", message |-> "no such column", table |-> ""]

\* The errors model.findAll may throw for a query.
FindAllErrors(table, options) ==
    IF QueryIsWellFormed(table, options)
    THEN {MissingTableError(table), ConnectionError, ColumnError}
    ELSE {UnknownColumnError}

\* error.message.includes('column') || error.message.includes('field')
MessageIncludesColumnOrField(message) ==
    message \in {"Unknown column in where clause", "no such column"}

\* The error message the catch block answers with.
ErrorMessage(error) ==
    IF error.name = "SequelizeValidationError" THEN "Data validation error"
    ELSE IF error.name = "SequelizeDatabaseError"
    THEN "Database query error: Please check your field selections and try again"
    ELSE IF MessageIncludesColumnOrField(error.message)
    THEN "Selected field not found in database. Please verify your field selections."
    ELSE "Failed to generate report"

\* ------------------------------------------------------------- responses
NoData == [type |-> "none"]

NoError == [name |-> "", message |-> "", table |-> ""]

NoResponse ==
    [status |-> 0, success |-> FALSE, error |-> "", errors |-> <<>>, details |-> NoError,
     data |-> NoData, recordCount |-> 0, collections |-> <<>>]

\* res.status(400).json({ success: false, error, details })
BadRequest(message, errors) ==
    [status |-> 400, success |-> FALSE, error |-> message, errors |-> errors,
     details |-> NoError, data |-> NoData, recordCount |-> 0, collections |-> <<>>]

\* The catch block: res.status(500).json({ success: false, error, details })
\* where details is the error's message in development only.
ServerError(error, nodeEnv) ==
    [status |-> 500, success |-> FALSE, error |-> ErrorMessage(error), errors |-> <<>>,
     details |-> IF nodeEnv = "development"
                 THEN [name |-> "", message |-> error.message, table |-> error.table]
                 ELSE NoError,
     data |-> NoData, recordCount |-> 0, collections |-> <<>>]

\* res.json({ success: true, data: reportData, metadata })
Success(reportData, rows, tables) ==
    [status |-> 200, success |-> TRUE, error |-> "", errors |-> <<>>, details |-> NoError,
     data |-> reportData, recordCount |-> Len(rows), collections |-> tables]

NodeEnvs == {"development", "production"}

\* ------------------------------------------------------- query building
\* queryOptions.where: every filter of the request, whatever the table.
BuildWhere(filters) ==
    LET w0 == EmptyWhere
        w1 == IF filters.start # 0 /\ filters.end # 0
              THEN SetKey(w0, "date", Between(filters.start, filters.end)) ELSE w0
        w2 == IF filters.factory # "" THEN SetKey(w1, "factory", Eq(filters.factory)) ELSE w1
        w3 == IF filters.region # "" THEN SetKey(w2, "region", Eq(filters.region)) ELSE w2
        w4 == IF filters.productId # "" THEN SetKey(w3, "productId", Eq(filters.productId)) ELSE w3
    IN  IF filters.present THEN w4 ELSE EmptyWhere

\* filteredWhere: only the filters that are relevant to the table.
FilteredWhere(filters, tableName) ==
    LET w0 == EmptyWhere
        w1 == IF filters.start # 0 /\ filters.end # 0 /\ OwnedBy("date", tableName)
              THEN SetKey(w0, "date", Between(filters.start, filters.end)) ELSE w0
        w2 == IF filters.factory # "" /\ OwnedBy("factory", tableName)
              THEN SetKey(w1, "factory", Eq(filters.factory)) ELSE w1
        w3 == IF filters.region # "" /\ OwnedBy("region", tableName)
              THEN SetKey(w2, "region", Eq(filters.region)) ELSE w2
        w4 == IF filters.productId # "" /\ OwnedBy("productId", tableName)
              THEN SetKey(w3, "productId", Eq(filters.productId)) ELSE w3
    IN  w4

\* A table that is asked for every requested field.
TableFields_Requested(fields, tableName) == fields

\* The requested fields that belong to a table.
TableFields(fields, tableName) ==
    SelectSeq(fields, LAMBDA field : OwnedBy(field, tableName))

\* The query of the single-table branch.
SingleTableQuery(fields, tableName, where) ==
    [table |-> tableName,
     attributes |-> IF Len(TableFields(fields, tableName)) > 0
                    THEN TableFields(fields, tableName) ELSE fields,
     where |-> where]

\* A query that keeps the where clause built for all tables.
TableQuery_GlobalWhere(fields, tableName, where, filters) ==
    [table |-> tableName,
     attributes |-> TableFields(fields, tableName),
     where |-> where]

\* The query of one table of the multi-table branch.
TableQuery(fields, tableName, where, filters) ==
    [table |-> tableName,
     attributes |-> TableFields(fields, tableName),
     where |-> IF filters.present THEN FilteredWhere(filters, tableName) ELSE where]

\* tableData.map(row => ({ ...row, _sourceTable: tableName }))
Enrich(tableData, tableName) ==
    [r \in 1..Len(tableData) |-> WithSourceTable(tableData[r], tableName)]

\* ------------------------------------------------------------- the handler
VARIABLES
    req,                 \* req.body as received
    selectedCollections, \* dataModel.collections, the array the handler holds
    pc,                  \* where the handler stands
    tableIndex,          \* the position of the for..of loop over the tables
    where,               \* queryOptions.where
    allResults,          \* the rows collected by the multi-table loop
    data,                \* the resolved rows
    findAllLog,          \* every query handed to model.findAll, in order
    failedTables,        \* the tables whose findAll threw
    events,              \* the analytics events recorded, by type
    response,            \* what res.json was called with
    input,               \* the arguments of a call of a pure function
    output,              \* what that call returned
    metrics,             \* AnalyticsService.metrics, the entries in Map order
    clock,               \* the millisecond new Date() reads
    recorded             \* the number of recordEvent calls so far

vars ==
    <<req, selectedCollections, pc, tableIndex, where, allResults, data,
      findAllLog, failedTables, events, response, input, output,
      metrics, clock, recorded>>

serviceVars == <<metrics, clock, recorded>>

\* The analytics service as constructed: this.metrics = new Map()
ServiceIdle ==
    /\ metrics = <<>>
    /\ clock = 0
    /\ recorded = 0

\* The handler calls none of the functions that are exercised on their own.
NoCall == [fn |-> "none"]

Init ==
    /\ req \in Requests
    /\ selectedCollections = req.collections
    /\ pc = "start"
    /\ tableIndex = 1
    /\ where = EmptyWhere
    /\ allResults = <<>>
    /\ data = <<>>
    /\ findAllLog = <<>>
    /\ failedTables = {}
    /\ events = <<>>
    /\ response = NoResponse
    /\ input = NoCall
    /\ output = NoCall
    /\ ServiceIdle

\* From the entry of the handler to the first await: tracking, the presence
\* checks, the field validation and the where clause.
Begin ==
    /\ pc = "start"
    /\ events' = Append(events, "report_generation")
    /\ \E nodeEnv \in NodeEnvs :
        IF ~req.visualization.present
        THEN /\ response' = BadRequest("Data model and visualization settings are required", <<>>)
             /\ pc' = "done"
             /\ UNCHANGED where
        ELSE IF Len(selectedCollections) = 0 \/ Len(req.fields) = 0
        THEN /\ response' = BadRequest("At least one collection and one field must be selected", <<>>)
             /\ pc' = "done"
             /\ UNCHANGED where
        ELSE IF FieldValidationThrows(req.fields, selectedCollections)
        THEN /\ response' = ServerError(TypeError, nodeEnv)
             /\ pc' = "done"
             /\ UNCHANGED where
        ELSE IF Len(FieldErrors(req.fields, selectedCollections)) > 0
        THEN /\ response' = BadRequest("Field validation failed",
                                       FieldErrors(req.fields, selectedCollections))
             /\ pc' = "done"
             /\ UNCHANGED where
        ELSE /\ where' = BuildWhere(req.filters)
             /\ pc' = IF Len(selectedCollections) = 1 THEN "single" ELSE "multi"
             /\ UNCHANGED response
    /\ UNCHANGED <<input, output, serviceVars>>
    /\ UNCHANGED <<req, selectedCollections, tableIndex, allResults, data,
                   findAllLog, failedTables>>

\* Whether trackQueryPerformance throws: recordEvent has stored the event
\* when updatePerformanceCache calls generateQueryCacheKey, which sorts
\* queryData.tables; a string has no sort method.
TrackQueryPerformanceThrows(tables) == IsString(tables)

\* What follows the retrieval: trackQueryPerformance (which sorts the
\* collections array in place), shaping, and the response.
Respond(rows) ==
    /\ data' = rows
    /\ events' = Append(events, "query_performance")
    /\ selectedCollections' =
          IF TrackQueryPerformanceThrows(selectedCollections)
          THEN selectedCollections ELSE SortTables(selectedCollections)
    /\ \E nodeEnv \in NodeEnvs :
          response' =
              IF TrackQueryPerformanceThrows(selectedCollections)
              THEN ServerError(SortTypeError, nodeEnv)
              ELSE IF ShapeThrows(rows, req.fields, req.visualization, Len(selectedCollections))
              THEN ServerError(PushTypeError, nodeEnv)
              ELSE Success(Shape(rows, req.fields, req.visualization, Len(selectedCollections)),
                           rows, SortTables(selectedCollections))
    /\ pc' = "done"

\* Single table: findAll returns.
SingleFindAllReturns ==
    /\ pc = "single"
    /\ LET query == SingleTableQuery(req.fields, selectedCollections[1], where)
       IN  /\ QueryIsWellFormed(query.table, query)
           /\ findAllLog' = Append(findAllLog, query)
           /\ Respond(FindAll(query.table, query))
    /\ UNCHANGED <<input, output, serviceVars>>
    /\ UNCHANGED <<req, tableIndex, where, allResults, failedTables>>

\* Single table: findAll throws, the catch block answers.
SingleFindAllThrows ==
    /\ pc = "single"
    /\ LET query == SingleTableQuery(req.fields, selectedCollections[1], where)
       IN  /\ findAllLog' = Append(findAllLog, query)
           /\ failedTables' = failedTables \cup {query.table}
           /\ \E error \in FindAllErrors(query.table, query), nodeEnv \in NodeEnvs :
                  response' = ServerError(error, nodeEnv)
    /\ pc' = "done"
    /\ UNCHANGED <<input, output, serviceVars>>
    /\ UNCHANGED <<req, selectedCollections, tableIndex, where, allResults, data, events>>

\* Multi table: a table without relevant fields is skipped.
SkipTable ==
    /\ pc = "multi"
    /\ tableIndex <= Len(selectedCollections)
    /\ Len(TableFields(req.fields, selectedCollections[tableIndex])) = 0
    /\ tableIndex' = tableIndex + 1
    /\ UNCHANGED <<input, output, serviceVars>>
    /\ UNCHANGED <<req, selectedCollections, pc, where, allResults, data,
                   findAllLog, failedTables, events, response>>

\* A loop that puts the rows of the current table in front of the others.
TableFindAllReturns_Prepends ==
    /\ pc = "multi"
    /\ tableIndex <= Len(selectedCollections)
    /\ Len(TableFields(req.fields, selectedCollections[tableIndex])) > 0
    /\ LET query == TableQuery(req.fields, selectedCollections[tableIndex], where, req.filters)
       IN  /\ QueryIsWellFormed(query.table, query)
           /\ findAllLog' = Append(findAllLog, query)
           /\ allResults' = Enrich(FindAll(query.table, query), query.table) \o allResults
    /\ tableIndex' = tableIndex + 1
    /\ UNCHANGED <<input, output, serviceVars>>
    /\ UNCHANGED <<req, selectedCollections, pc, where, data, failedTables, events, response>>

\* Multi table: findAll of the current table returns.
TableFindAllReturns ==
    /\ pc = "multi"
    /\ tableIndex <= Len(selectedCollections)
    /\ Len(TableFields(req.fields, selectedCollections[tableIndex])) > 0
    /\ LET query == TableQuery(req.fields, selectedCollections[tableIndex], where, req.filters)
       IN  /\ QueryIsWellFormed(query.table, query)
           /\ findAllLog' = Append(findAllLog, query)
           /\ allResults' = allResults \o Enrich(FindAll(query.table, query), query.table)
    /\ tableIndex' = tableIndex + 1
    /\ UNCHANGED <<input, output, serviceVars>>
    /\ UNCHANGED <<req, selectedCollections, pc, where, data, failedTables, events, response>>

\* A loop without try/catch: the error of one table reaches the catch block
\* of the handler.
TableFindAllThrows_Aborts ==
    /\ pc = "multi"
    /\ tableIndex <= Len(selectedCollections)
    /\ Len(TableFields(req.fields, selectedCollections[tableIndex])) > 0
    /\ LET query == TableQuery(req.fields, selectedCollections[tableIndex], where, req.filters)
       IN  /\ findAllLog' = Append(findAllLog, query)
           /\ failedTables' = failedTables \cup {query.table}
           /\ \E error \in FindAllErrors(query.table, query), nodeEnv \in NodeEnvs :
                  response' = ServerError(error, nodeEnv)
    /\ pc' = "done"
    /\ UNCHANGED <<input, output, serviceVars>>
    /\ UNCHANGED <<req, selectedCollections, tableIndex, where, allResults, data, events>>

\* Multi table: findAll of the current table throws; the loop continues.
TableFindAllThrows ==
    /\ pc = "multi"
    /\ tableIndex <= Len(selectedCollections)
    /\ Len(TableFields(req.fields, selectedCollections[tableIndex])) > 0
    /\ LET query == TableQuery(req.fields, selectedCollections[tableIndex], where, req.filters)
       IN  /\ findAllLog' = Append(findAllLog, query)
           /\ failedTables' = failedTables \cup {query.table}
    /\ tableIndex' = tableIndex + 1
    /\ UNCHANGED <<input, output, serviceVars>>
    /\ UNCHANGED <<req, selectedCollections, pc, where, allResults, data, events, response>>

\* Multi table: the loop is over.
FinishTables ==
    /\ pc = "multi"
    /\ tableIndex > Len(selectedCollections)
    /\ Respond(allResults)
    /\ UNCHANGED <<input, output, serviceVars>>
    /\ UNCHANGED <<req, tableIndex, where, allResults, findAllLog, failedTables>>

Next ==
    \/ Begin
    \/ SingleFindAllReturns
    \/ SingleFindAllThrows
    \/ SkipTable
    \/ TableFindAllReturns
    \/ TableFindAllThrows
    \/ FinishTables

Spec == Init /\ [][Next]_vars

\* ================================================================ claims
\* The tables and fields of the request as it was received.
DeclaredTables == { req.collections[k] : k \in 1..Len(req.collections) }

DeclaredFields == { req.fields[k] : k \in 1..Len(req.fields) }

\* The request passes the presence checks, so the field validation runs.
ValidationRuns ==
    /\ req.visualization.present
    /\ Len(req.collections) > 0
    /\ Len(req.fields) > 0

\* No requested table owns the field.
Unowned(field) == OwningTables(field) \cap DeclaredTables = {}

\* The response carries a validation error for the field.
ErrorReportedFor(field) ==
    \E e \in 1..Len(response.errors) : response.errors[e].field = field

\* C1: once the field validation has run, it reports an error for a
\* requested field if and only if no requested table owns the field.
C1_ErrorIffUnowned ==
    (pc # "start" /\ ValidationRuns) =>
        \A field \in DeclaredFields : ErrorReportedFor(field) <=> Unowned(field)

\* C2: a request with a field that no requested table owns hands no query to
\* findAll at any time and, once answered, is answered with success = false.
C2_InvalidRequestNeverRetrieves ==
    (\E field \in DeclaredFields : Unowned(field)) =>
        /\ findAllLog = <<>>
        /\ failedTables = {}
        /\ pc \in {"start", "done"}
        /\ pc = "done" => ~response.success

\* C2 witness: a two-table request with an unowned field has been rejected
\* by the validation.
C2_Witness ==
    /\ pc = "done"
    /\ Len(req.collections) = 2
    /\ \E field \in DeclaredFields : Unowned(field) /\ MapLookupKind(field) = "array"
    /\ response.status = 400
    /\ Len(response.errors) > 0

\* The two tables may be combined according to the relationship graph.
Joinable(table1, table2) ==
    /\ table1 \in DOMAIN TABLE_RELATIONSHIPS
    /\ table2 \in DOMAIN TABLE_RELATIONSHIPS
    /\ Includes(TABLE_RELATIONSHIPS[table1].canJoinWith, table2)
    /\ Includes(TABLE_RELATIONSHIPS[table2].canJoinWith, table1)

\* The pairs of requested tables that may not be combined.
UnjoinablePairs ==
    { pair \in DeclaredTables \X DeclaredTables :
        pair[1] # pair[2] /\ ~Joinable(pair[1], pair[2]) }

\* The error names both tables of the pair.
NamesBoth(error, pair) ==
    /\ Includes(error.tables, pair[1])
    /\ Includes(error.tables, pair[2])

\* C4: a multi-table request whose fields are all owned but which holds a
\* pair of tables that cannot be joined hands no query to findAll, is
\* answered with success = false, and validateTableJoins gives, for every
\* such pair, an error that names both of its tables.
C4_UnjoinablePairRejected ==
    ( /\ ValidationRuns
      /\ Len(req.collections) > 1
      /\ \A field \in DeclaredFields : ~Unowned(field)
      /\ UnjoinablePairs # {} ) =>
        /\ findAllLog = <<>>
        /\ pc = "done" =>
              /\ ~response.success
              /\ \A pair \in UnjoinablePairs :
                    \E e \in 1..Len(validateTableJoins(req.collections).errors) :
                        NamesBoth(validateTableJoins(req.collections).errors[e], pair)

\* The request asks for the filter on column g.
FilterRequested(g) ==
    /\ req.filters.present
    /\ CASE g = "date"      -> req.filters.start # 0 /\ req.filters.end # 0
         [] g = "factory"   -> req.filters.factory # ""
         [] g = "region"    -> req.filters.region # ""
         [] g = "productId" -> req.filters.productId # ""
         [] OTHER           -> FALSE

\* The condition the request asks for on column g.
RequestedCondition(g) ==
    CASE g = "date"      -> Between(req.filters.start, req.filters.end)
      [] g = "factory"   -> Eq(req.filters.factory)
      [] g = "region"    -> Eq(req.filters.region)
      [] OTHER           -> Eq(req.filters.productId)

FilterColumns == {"date", "factory", "region", "productId"}

\* The rows a table contributes to the request: its stored rows that pass
\* the requested filters on the columns it owns, reduced to the requested
\* fields it owns, each tagged with the table.
ContributionOf(table) ==
    LET passing ==
            SelectSeq(Storage[table], LAMBDA row :
                \A g \in FilterColumns :
                    (FilterRequested(g) /\ table \in OwningTables(g)) =>
                        IF g = "date"
                        THEN /\ req.filters.start <= Get(row, g).n
                             /\ Get(row, g).n <= req.filters.end
                        ELSE Get(row, g).s = RequestedCondition(g).val)
        wanted == SelectSeq(req.fields, LAMBDA f : table \in OwningTables(f))
    IN  [r \in 1..Len(passing) |->
            [a \in 1..(Len(wanted) + 1) |->
                IF a <= Len(wanted)
                THEN Prop(wanted[a], Get(passing[r], wanted[a]))
                ELSE Prop("_sourceTable", Str(table))]]

\* The table was queried and its retrieval did not fail.
Retrieved(table) ==
    /\ table \notin failedTables
    /\ \E q \in 1..Len(findAllLog) : findAllLog[q].table = table

\* The contributions of the retrieved tables, in the order of the list.
RECURSIVE ContributionsOf(_)
ContributionsOf(tables) ==
    IF tables = <<>> THEN <<>>
    ELSE (IF Retrieved(Head(tables)) THEN ContributionOf(Head(tables)) ELSE <<>>)
             \o ContributionsOf(Tail(tables))

\* C5: a multi-table request in which the retrieval of some table failed is
\* answered with success = true, and its resolved rows are exactly the rows
\* of the tables whose retrieval succeeded.
C5_TableFailureIsIsolated ==
    (pc = "done" /\ Len(req.collections) > 1 /\ failedTables # {}) =>
        /\ response.success
        /\ data = ContributionsOf(req.collections)
        /\ response.recordCount = Len(data)

\* C5 witness: one table failed, another one delivered rows, and the
\* request was answered.
C5_Witness ==
    /\ pc = "done"
    /\ Len(req.collections) > 1
    /\ failedTables # {}
    /\ \E t \in DeclaredTables : Retrieved(t) /\ Len(ContributionOf(t)) > 0
    /\ Len(data) > 0

\* The tables a response names: the error texts of the catch block are
\* fixed sentences without a table name, so only details can name one.
TablesNamedBy(resp) == {resp.details.table} \ {""}

\* C6: a single-table request whose retrieval failed is answered with
\* success = false, without payload, and the failure names the table.
C6_SingleTableFailureNamesTable ==
    (pc = "done" /\ Len(req.collections) = 1 /\ failedTables # {}) =>
        /\ ~response.success
        /\ response.data = NoData
        /\ req.collections[1] \in TablesNamedBy(response)

\* C7: in a multi-table request the where clause sent to a table holds the
\* filter on g exactly when the request asks for it and the table owns g,
\* and then it is the requested condition.
C7_FiltersArePerTable ==
    Len(req.collections) > 1 =>
        \A q \in 1..Len(findAllLog) : \A g \in FilterColumns :
            /\ g \in DOMAIN findAllLog[q].where <=>
                   (FilterRequested(g) /\ findAllLog[q].table \in OwningTables(g))
            /\ g \in DOMAIN findAllLog[q].where =>
                   findAllLog[q].where[g] = RequestedCondition(g)
            /\ DOMAIN findAllLog[q].where \subseteq FilterColumns

\* C7 witness: production was queried with the factory filter and without
\* the region filter the request also carries.
C7_Witness ==
    /\ Len(req.collections) > 1
    /\ FilterRequested("region")
    /\ FilterRequested("factory")
    /\ \E q \in 1..Len(findAllLog) :
          /\ findAllLog[q].table = "production"
          /\ "factory" \in DOMAIN findAllLog[q].where
          /\ "region" \notin DOMAIN findAllLog[q].where

\* The elements of a list.
Range(arr) == { arr[k] : k \in 1..Len(arr) }

\* C8: in a multi-table request every query asks a table for exactly the
\* requested fields it owns, every resolved row carries the tag of a queried
\* table and the properties that table was asked for, and once the request
\* is answered the queried tables are exactly the requested tables that own
\* a requested field.
C8_OnlyOwnedFieldsAreAsked ==
    Len(req.collections) > 1 =>
        /\ \A q \in 1..Len(findAllLog) :
              /\ findAllLog[q].table \in DeclaredTables
              /\ Range(findAllLog[q].attributes) =
                     { f \in DeclaredFields : findAllLog[q].table \in OwningTables(f) }
              /\ findAllLog[q].attributes # <<>>
        /\ \A r \in 1..Len(allResults) :
              \E q \in 1..Len(findAllLog) :
                  /\ Get(allResults[r], "_sourceTable") = Str(findAllLog[q].table)
                  /\ Keys(allResults[r]) = findAllLog[q].attributes \o <<"_sourceTable">>
                  /\ \E s \in 1..Len(Storage[findAllLog[q].table]) :
                        \A a \in Range(findAllLog[q].attributes) :
                            Get(allResults[r], a) = Get(Storage[findAllLog[q].table][s], a)
        /\ (pc = "done" /\ response.success) =>
              /\ data = allResults
              /\ { findAllLog[q].table : q \in 1..Len(findAllLog) } =
                     { t \in DeclaredTables :
                         \E f \in DeclaredFields : t \in OwningTables(f) }

\* C8 witness: a table without requested fields was skipped, another one
\* was queried and delivered tagged rows.
C8_Witness ==
    /\ pc = "done"
    /\ response.success
    /\ Len(req.collections) > 1
    /\ \E t \in DeclaredTables \cap collections : \A f \in DeclaredFields : t \notin OwningTables(f)
    /\ Len(data) > 0

\* The position of a table in the request's list of tables.
DeclaredPosition(table) ==
    CHOOSE k \in 1..Len(req.collections) : req.collections[k] = table

\* C9: the rows of a multi-table result stand in the order of the request's
\* tables: a row of an earlier table never follows a row of a later one.
C9_RowsInDeclaredTableOrder ==
    Len(req.collections) > 1 =>
        /\ \A a, b \in 1..Len(allResults) :
              a < b => DeclaredPosition(SourceTableOf(allResults[a]))
                           <= DeclaredPosition(SourceTableOf(allResults[b]))
        /\ (pc = "done" /\ response.success) => data = allResults

\* C9 witness: the rows of two tables were collected for a request that does
\* not list its tables alphabetically, and the request was answered.
C9_Witness ==
    /\ pc = "done"
    /\ response.success
    /\ req.collections # selectedCollections
    /\ \E a, b \in 1..Len(data) : SourceTableOf(data[a]) # SourceTableOf(data[b])

\* C10: a request with aggregations is answered with a payload shaped from
\* the aggregated rows, one per group, and counts those rows.
C10_PayloadShapedFromAggregatedRows ==
    (pc = "done" /\ response.success /\ Len(req.aggregations) > 0) =>
        /\ response.data =
               Shape(applyAggregations(data, req.aggregations), req.fields,
                     req.visualization, Len(req.collections))
        /\ response.recordCount = Len(applyAggregations(data, req.aggregations))

\* ------------------------------------------- chart validation on its own
\* The handler at rest, for the specifications that exercise one function.
HandlerIdle ==
    /\ req = [collections |-> <<>>, fields |-> <<>>, aggregations |-> <<>>,
              visualization |-> NoVisualization, filters |-> NoFilters]
    /\ selectedCollections = <<>>
    /\ tableIndex = 1
    /\ where = EmptyWhere
    /\ allResults = <<>>
    /\ data = <<>>
    /\ findAllLog = <<>>
    /\ failedTables = {}
    /\ events = <<>>
    /\ response = NoResponse

handlerVars ==
    <<req, selectedCollections, tableIndex, where, allResults, data,
      findAllLog, failedTables, events, response>>

\* Field objects of the canvas: name, JavaScript type of the values, table.
FieldObjects ==
    { [name |-> "productId", type |-> "string", collection |-> "production"],
      [name |-> "quantity", type |-> "number", collection |-> "production"],
      [name |-> "date", type |-> "object", collection |-> "production"],
      [name |-> "defectCount", type |-> "number", collection |-> "defects"] }

\* Field selections: one field followed by copies of another one.
FieldSelections ==
    { [k \in 1..n |-> IF k = 1 THEN first ELSE other] :
        n \in 0..MaxSelected, first \in FieldObjects, other \in FieldObjects }

ChartTypes ==
    {"bar", "multi-bar", "comparison-chart", "grouped-table", "line", "pie", "table", "radar"}

ChartTables ==
    { <<>>, <<"production">>, <<"production", "defects">>,
      <<"production", "inventory">>, <<"inventory", "sales">> }

InitChart ==
    /\ HandlerIdle
    /\ ServiceIdle
    /\ pc = "call"
    /\ input \in [fn : {"validateFieldsForChart"}, selectedFields : FieldSelections,
                  chartType : ChartTypes, selectedCollections : ChartTables]
    /\ output = NoCall

CallValidateFieldsForChart ==
    /\ pc = "call"
    /\ input.fn = "validateFieldsForChart"
    /\ output' = [fn |-> "validateFieldsForChart",
                  result |-> validateFieldsForChart(input.selectedFields, input.chartType,
                                                    input.selectedCollections)]
    /\ pc' = "returned"
    /\ UNCHANGED <<input, handlerVars, serviceVars>>

NextChart == CallValidateFieldsForChart

SpecChart == InitChart /\ [][NextChart]_vars

\* The call of validateFieldsForChart has returned for a known chart type.
ChartValidated ==
    /\ output.fn = "validateFieldsForChart"
    /\ ChartKey(input.chartType) \in DOMAIN CHART_COMPATIBILITY

ChartRules == CHART_COMPATIBILITY[ChartKey(input.chartType)]

HasFinding(findings, kind) == \E f \in 1..Len(findings) : findings[f].kind = kind

\* The selection has a field of an acceptable X type and one of an
\* acceptable Y type (a table needs neither).
AxesCovered ==
    \/ input.chartType = "table"
    \/ /\ \E f \in 1..Len(input.selectedFields) :
             Includes(ChartRules.xAxis, input.selectedFields[f].type)
       /\ \E f \in 1..Len(input.selectedFields) :
             Includes(ChartRules.yAxis, input.selectedFields[f].type)

\* Every two of the selected tables may be combined.
TablesJoinable ==
    \A a, b \in 1..Len(input.selectedCollections) :
        a # b => Joinable(input.selectedCollections[a], input.selectedCollections[b])

\* C3 as stated: fewer than minFields fields is an error; more than
\* maxFields fields is a warning and never an error.
C3_OverflowNeverAnError ==
    ChartValidated =>
        /\ Len(input.selectedFields) < ChartRules.minFields =>
              (~output.result.isValid /\ Len(output.result.errors) > 0)
        /\ Len(input.selectedFields) > ChartRules.maxFields =>
              /\ Len(output.result.warnings) > 0
              /\ output.result.isValid
              /\ Len(output.result.errors) = 0

\* C3 as amended: fewer than minFields fields is an error; more than
\* maxFields fields is the field-count warning and no field-count error, and
\* such a selection is invalid exactly when an axis has no acceptable field
\* or the tables cannot be joined.
C3_OverflowIsAWarning ==
    ChartValidated =>
        /\ Len(input.selectedFields) < ChartRules.minFields =>
              /\ ~output.result.isValid
              /\ HasFinding(output.result.errors, "minFields")
        /\ Len(input.selectedFields) > ChartRules.maxFields =>
              /\ HasFinding(output.result.warnings, "maxFields")
              /\ ~HasFinding(output.result.errors, "maxFields")
              /\ ~HasFinding(output.result.errors, "minFields")
              /\ output.result.isValid <=> (AxesCovered /\ TablesJoinable)

\* C3 witness: a pie chart over three string fields: the overflow is a
\* warning, the missing Y field an error.
C3_Witness ==
    /\ ChartValidated
    /\ input.chartType = "pie"
    /\ Len(input.selectedFields) > ChartRules.maxFields
    /\ HasFinding(output.result.warnings, "maxFields")
    /\ HasFinding(output.result.errors, "yAxis")
    /\ ~output.result.isValid

\* ------------------------------------------------ aggregation on its own
\* The longest list of resolved rows handed to a function exercised on its
\* own.
MaxRows == 3

\* Resolved rows of production: factory, quantity, productId. A quantity may
\* be a number, a string, null or absent; a factory may be a name, a number
\* or null.
AggregationRows ==
    { <<Prop("factory", Str("A")), Prop("quantity", Num(5)), Prop("productId", Str("P1"))>>,
      <<Prop("factory", Str("A")), Prop("quantity", Num(3)), Prop("productId", Str("P2"))>>,
      <<Prop("factory", Str("B")), Prop("quantity", Num(2)), Prop("productId", Str("P1"))>>,
      <<Prop("factory", Num(2)), Prop("quantity", Num(4)), Prop("productId", Str("P1"))>>,
      <<Prop("factory", Num(1)), Prop("quantity", Num(1)), Prop("productId", Str("P2"))>>,
      <<Prop("factory", Str("A")), Prop("quantity", Str("n/a")), Prop("productId", Str("P1"))>>,
      <<Prop("factory", Str("B")), Prop("quantity", Null), Prop("productId", Str("P2"))>>,
      <<Prop("factory", Str("A")), Prop("productId", Str("P1"))>>,
      <<Prop("factory", Null), Prop("quantity", Num(2)), Prop("productId", Str("P1"))>>,
      <<Prop("factory", Str("B")), Prop("quantity", Str("7")), Prop("productId", Str("P2"))>> }

\* Lists of at most n elements of S.
SeqsUpTo(S, n) == UNION { [1..k -> S] : k \in 0..n }

\* An aggregation of a request: { type, field, groupBy }.
Aggregation(type, field, groupBy) == [type |-> type, field |-> field, groupBy |-> groupBy]

\* The aggregation lists of a request.
AggregationLists ==
    { << Aggregation("sum", "quantity", "factory") >>,
      << Aggregation("sum", "quantity", "factory"), Aggregation("count", "", "productId") >>,
      << Aggregation("count", "", "productId"), Aggregation("sum", "quantity", "factory") >>,
      << Aggregation("average", "quantity", "factory"), Aggregation("sum", "quantity", "productId") >>,
      << Aggregation("median", "quantity", "factory") >> }

InitAggregation ==
    /\ HandlerIdle
    /\ ServiceIdle
    /\ pc = "call"
    /\ input \in
          [fn : {"groupAndSum"}, rows : SeqsUpTo(AggregationRows, MaxRows),
           groupBy : {"factory"}, sumField : {"quantity"}]
          \cup [fn : {"applyAggregations"}, rows : SeqsUpTo(AggregationRows, MaxRows),
                aggregations : AggregationLists]
    /\ output = NoCall

CallGroupAndSum ==
    /\ pc = "call"
    /\ input.fn = "groupAndSum"
    /\ output' = [fn |-> "groupAndSum",
                  result |-> groupAndSum(input.rows, input.groupBy, input.sumField)]
    /\ pc' = "returned"
    /\ UNCHANGED <<input, handlerVars, serviceVars>>

CallApplyAggregations ==
    /\ pc = "call"
    /\ input.fn = "applyAggregations"
    /\ output' = [fn |-> "applyAggregations",
                  result |-> applyAggregations(input.rows, input.aggregations)]
    /\ pc' = "returned"
    /\ UNCHANGED <<input, handlerVars, serviceVars>>

NextAggregation == CallGroupAndSum \/ CallApplyAggregations

SpecAggregation == InitAggregation /\ [][NextAggregation]_vars

\* groupAndSum has returned.
SumReturned == pc = "returned" /\ output.fn = "groupAndSum"

\* The arithmetic sum of the numbers that the rows of group g hold in a
\* field; a value that is not a number counts for nothing.
RECURSIVE SumOver(_, _, _, _)
SumOver(rows, groupBy, g, field) ==
    IF rows = <<>> THEN 0
    ELSE SumOver(Tail(rows), groupBy, g, field)
            + (IF Get(Head(rows), groupBy) = g /\ Get(Head(rows), field).t = "number"
               THEN Get(Head(rows), field).n ELSE 0)

\* The distinct values of a field over the rows, in order of first occurrence.
GroupValues(rows, groupBy) == Unique([r \in 1..Len(rows) |-> Get(rows[r], groupBy)])

\* Every row holds a number in the field.
NumericRows(rows, field) == \A r \in 1..Len(rows) : Get(rows[r], field).t = "number"

\* No row holds in the field a string that spells a number.
NoNumericStrings(rows, field) ==
    \A r \in 1..Len(rows) :
        Get(rows[r], field).t = "string" => ParseFloat(Get(rows[r], field)).t = "NaN"

\* C11: over rows that all hold a number in F, the sum of F grouped by G
\* has exactly one entry per distinct G value, in order of first occurrence,
\* and the entry of a group holds the arithmetic sum of F over the group.
C11_SumPerGroupInFirstOccurrenceOrder ==
    (SumReturned /\ NumericRows(input.rows, input.sumField)) =>
        LET gs == GroupValues(input.rows, input.groupBy)
        IN  /\ Len(output.result) = Len(gs)
            /\ \A i \in 1..Len(gs) :
                  i <= Len(output.result) =>
                      /\ Get(output.result[i], input.groupBy) = gs[i]
                      /\ Get(output.result[i], input.sumField)
                            = Num(SumOver(input.rows, input.groupBy, gs[i], input.sumField))

\* C12: in a sum, a row whose value is missing, null or a string that spells
\* no number contributes 0: every reduced value is a number, the sum of the
\* numeric values of its group.
C12_NonNumericContributesZero ==
    (SumReturned /\ NoNumericStrings(input.rows, input.sumField)) =>
        \A i \in 1..Len(output.result) :
            Get(output.result[i], input.sumField)
                = Num(SumOver(input.rows, input.groupBy,
                              Get(output.result[i], input.groupBy), input.sumField))

\* applyAggregations has returned.
AggregationsReturned == pc = "returned" /\ output.fn = "applyAggregations"

\* C13: every aggregation of a request is computed over the resolved rows
\* and its reduced series is in the result: no aggregation works on the
\* output of another one or replaces its groups.
C13_AggregationsAreIndependent ==
    AggregationsReturned =>
        \A a \in 1..Len(input.aggregations) :
            LET series == ApplyAggregation(input.rows, input.aggregations[a])
            IN  \A s \in 1..Len(series) : Includes(output.result, series[s])

\* --------------------------------------- the Mongo revision's payload shaper
\* formatDataForVisualization(data, visualization): labels and values are
\* the rows' own values, item[xAxis] || item._id and item[yAxis] || 0.
formatDataForVisualization(rows, visualization) ==
    LET Label(item) ==
            IF Truthy(Get(item, visualization.xAxis))
            THEN Get(item, visualization.xAxis) ELSE Get(item, "_id")
        Value(item) ==
            IF Truthy(Get(item, visualization.yAxis))
            THEN Get(item, visualization.yAxis) ELSE Num(0)
        Chart(label) ==
            [type |-> "chart",
             labels |-> [r \in 1..Len(rows) |-> Label(rows[r])],
             datasets |-> << [label |-> label,
                              data |-> [r \in 1..Len(rows) |-> Value(rows[r])]] >>,
             columns |-> <<>>, rows |-> <<>>]
    IN  IF Len(rows) = 0
        THEN [type |-> "chart", labels |-> <<>>, datasets |-> <<>>,
              columns |-> <<>>, rows |-> <<>>]
        ELSE CASE visualization.type = "table" ->
                    [type |-> "table", labels |-> <<>>, datasets |-> <<>>,
                     columns |-> Keys(rows[1]), rows |-> rows]
               [] visualization.type \in {"bar", "line"} ->
                    Chart(IF visualization.yAxis # "" THEN visualization.yAxis ELSE "Value")
               [] visualization.type \in {"pie", "doughnut"} -> Chart("")
               [] OTHER ->
                    [type |-> "rows", labels |-> <<>>, datasets |-> <<>>,
                     columns |-> <<>>, rows |-> rows]

\* ------------------------------------------------- shaping on its own
\* The longest list of rows shaped into a chart.
MaxChartRows == 51

\* Stored rows of production: productId, quantity, shift.
ProductionRows ==
    { <<Prop("productId", Str("P1")), Prop("quantity", Num(10)), Prop("shift", Num(1))>>,
      <<Prop("productId", Str("P1")), Prop("quantity", Num(3)), Prop("shift", Num(2))>>,
      <<Prop("productId", Str("P2")), Prop("quantity", Str("n/a")), Prop("shift", Num(1))>>,
      <<Prop("productId", Null), Prop("quantity", Num(5)), Prop("shift", Num(1))>>,
      <<Prop("productId", Str("constructor")), Prop("quantity", Num(2)), Prop("shift", Num(2))>>,
      <<Prop("productId", Str("P2")), Prop("quantity", Null), Prop("shift", Null)>> }

\* Stored rows of defects: productId, defectCount.
DefectsRows ==
    { <<Prop("productId", Str("P1")), Prop("defectCount", Num(2))>>,
      <<Prop("productId", Str("P3")), Prop("defectCount", Str("7"))>>,
      <<Prop("productId", Str("P2")), Prop("defectCount", Null)>> }

\* attributes: the row reduced to the requested attributes (raw: true).
Project(tableData, attributes) ==
    [r \in 1..Len(tableData) |->
        [a \in 1..Len(attributes) |-> Prop(attributes[a], Get(tableData[r], attributes[a]))]]

\* What the retrieval resolves for one table: the rows with the requested
\* fields.
SingleTableRows(tableData, fields) == Project(tableData, fields)

\* What the retrieval resolves for production and defects: per table the
\* rows with the fields the table owns, tagged with the table.
TwoTableRows(productionData, defectsData, fields) ==
    Enrich(Project(productionData, TableFields(fields, "production")), "production")
        \o Enrich(Project(defectsData, TableFields(fields, "defects")), "defects")

\* n copies of a row.
Copies(row, n) == [k \in 1..n |-> row]

\* n rows of production with the product numbers 1..n.
Numbered(n) ==
    [k \in 1..n |->
        <<Prop("productId", Num(k)), Prop("quantity", Num(k)), Prop("shift", Num(1))>>]

\* Long lists of rows of production: copies of one row, or numbered rows.
LongLists ==
    { Copies(row, n) : row \in ProductionRows, n \in (MaxRows + 1)..MaxChartRows }
        \cup { Numbered(n) : n \in (MaxRows + 1)..MaxChartRows }

\* Visualization settings with hints.
Hinted(type, xAxis, yAxis, groupBy, valueFields) ==
    [present |-> TRUE, type |-> type, xAxis |-> xAxis, yAxis |-> yAxis,
     groupBy |-> groupBy, valueFields |-> valueFields]

ShapeVisualizations ==
    { Visualization("table"), Visualization("grouped-table"), Visualization("bar"),
      Visualization("line"), Visualization("pie"), Visualization("multi-bar"),
      Hinted("bar", "productId", "quantity", "", <<>>),
      Hinted("grouped-table", "", "", "productId", <<>>),
      Hinted("multi-bar", "productId", "", "", <<"quantity", "shift">>),
      Hinted("multi-bar", "", "", "", <<"quantity", "defectCount">>) }

\* Field lists requested of production alone.
SingleTableFields ==
    { <<"productId", "quantity">>, <<"quantity">>, <<"productId", "quantity", "shift">> }

\* The field list requested of production and defects.
TwoTableFields == <<"productId", "quantity", "defectCount">>

\* A call of the shaper or of formatDataForVisualization.
ShaperCall(fn, rows, fields, visualization, tableCount) ==
    [fn |-> fn, rows |-> rows, fields |-> fields, visualization |-> visualization,
     tableCount |-> tableCount]

ShaperFunctions == {"shape", "formatDataForVisualization"}

\* The calls: rows of one table (short lists for both functions, long lists
\* for the shaper) and rows of two tables (short lists, and long lists of
\* numbered rows of production).
InitShape ==
    /\ HandlerIdle
    /\ ServiceIdle
    /\ pc = "call"
    /\ output = NoCall
    /\ \E visualization \in ShapeVisualizations :
        \/ \E tableData \in SeqsUpTo(ProductionRows, MaxRows),
              fields \in SingleTableFields, fn \in ShaperFunctions :
              input = ShaperCall(fn, SingleTableRows(tableData, fields), fields,
                                 visualization, 1)
        \/ \E tableData \in LongLists, fields \in SingleTableFields :
              input = ShaperCall("shape", SingleTableRows(tableData, fields), fields,
                                 visualization, 1)
        \/ \E productionData \in SeqsUpTo(ProductionRows, MaxRows),
              defectsData \in SeqsUpTo(DefectsRows, 2) :
              input = ShaperCall("shape",
                                 TwoTableRows(productionData, defectsData, TwoTableFields),
                                 TwoTableFields, visualization, 2)
        \/ \E n \in (MaxRows + 1)..MaxChartRows, defectsData \in SeqsUpTo(DefectsRows, 1) :
              input = ShaperCall("shape",
                                 TwoTableRows(Numbered(n), defectsData, TwoTableFields),
                                 TwoTableFields, visualization, 2)

\* The shaping stretch of generateReport, from the resolved rows to
\* reportData, or to the TypeError it throws.
CallShape ==
    /\ pc = "call"
    /\ input.fn = "shape"
    /\ output' =
          IF ShapeThrows(input.rows, input.fields, input.visualization, input.tableCount)
          THEN [fn |-> "shape", threw |-> TRUE, result |-> NoData]
          ELSE [fn |-> "shape", threw |-> FALSE,
                result |-> Shape(input.rows, input.fields, input.visualization,
                                 input.tableCount)]
    /\ pc' = "returned"
    /\ UNCHANGED <<input, handlerVars, serviceVars>>

CallFormatDataForVisualization ==
    /\ pc = "call"
    /\ input.fn = "formatDataForVisualization"
    /\ output' = [fn |-> "formatDataForVisualization", threw |-> FALSE,
                  result |-> formatDataForVisualization(input.rows, input.visualization)]
    /\ pc' = "returned"
    /\ UNCHANGED <<input, handlerVars, serviceVars>>

NextShape == CallShape \/ CallFormatDataForVisualization

SpecShape == InitShape /\ [][NextShape]_vars

\* The shaper has returned a payload.
ShapeReturned == pc = "returned" /\ output.fn = "shape" /\ ~output.threw

\* The string form of the groupBy value of a row, "Unspecified" when the
\* value is null or missing.
StringFormOrUnspecified(row, groupBy) ==
    IF Get(row, groupBy) \in {Null, Undefined} THEN "Unspecified"
    ELSE JsString(Get(row, groupBy))

\* The sizes of the groups added up.
RECURSIVE TotalSize(_)
TotalSize(groups) ==
    IF groups = <<>> THEN 0 ELSE Len(Head(groups).rows) + TotalSize(Tail(groups))

\* C14: in a grouped-table payload the groups have distinct keys, the group
\* of a key holds exactly the rows whose groupBy value has that string form
\* ("Unspecified" for null or missing), every row has its group, and the
\* group sizes add up to the number of rows.
C14_GroupsPartitionTheRows ==
    (ShapeReturned /\ output.result.type = "grouped-table") =>
        LET groups == output.result.groups
            groupBy == output.result.groupBy
        IN  /\ \A g, h \in 1..Len(groups) : g # h => groups[g].key # groups[h].key
            /\ \A g \in 1..Len(groups) :
                  groups[g].rows
                      = SelectSeq(input.rows, LAMBDA row :
                            StringFormOrUnspecified(row, groupBy) = groups[g].key)
            /\ \A r \in 1..Len(input.rows) :
                  \E g \in 1..Len(groups) :
                      groups[g].key = StringFormOrUnspecified(input.rows[r], groupBy)
            /\ TotalSize(groups) = Len(input.rows)

\* C14 witness: a grouped table of several groups, one of them "Unspecified"
\* holding a row whose groupBy value is null.
C14_Witness ==
    /\ ShapeReturned
    /\ output.result.type = "grouped-table"
    /\ Len(output.result.groups) > 1
    /\ \E g \in 1..Len(output.result.groups) :
          /\ output.result.groups[g].key = "Unspecified"
          /\ \E r \in 1..Len(output.result.groups[g].rows) :
                Get(output.result.groups[g].rows[r], output.result.groupBy) = Null

\* C15: a single-series chart payload over n rows has min(n, 50) labels and
\* one series, with one value per label.
C15_SingleSeriesHasAtMost50Labels ==
    (ShapeReturned /\ output.result.type \in {"bar", "line", "pie"}) =>
        /\ Len(output.result.labels)
              = (IF Len(input.rows) < 50 THEN Len(input.rows) ELSE 50)
        /\ Len(output.result.datasets) = 1
        /\ Len(output.result.datasets[1].data) = Len(output.result.labels)

\* C15 witness: a bar chart over more than 50 rows of distinct categories
\* has 50 labels.
C15_Witness ==
    /\ ShapeReturned
    /\ output.result.type = "bar"
    /\ Len(input.rows) > 50
    /\ \A a, b \in 1..Len(input.rows) :
          a # b => Get(input.rows[a], "productId") # Get(input.rows[b], "productId")
    /\ Len(output.result.labels) = 50

\* A chart payload has been returned by the shaper of the handler or by
\* formatDataForVisualization.
ChartReturned ==
    /\ pc = "returned"
    /\ output.fn \in ShaperFunctions
    /\ ~output.threw
    /\ output.result.type \in {"bar", "line", "pie", "multi-bar", "chart"}

\* C16: every value of every series of a chart payload is a number (and so
\* not NaN, null, undefined or a string).
C16_SeriesValuesAreNumbers ==
    ChartReturned =>
        \A d \in 1..Len(output.result.datasets) :
            \A l \in 1..Len(output.result.datasets[d].data) :
                output.result.datasets[d].data[l].t = "number"

\* A cross-table comparison payload has been returned.
ComparisonReturned ==
    ShapeReturned /\ input.tableCount > 1 /\ output.result.type = "multi-bar"

\* The source tables of the rows, in order of first occurrence.
SourceTables(rows) == Unique([r \in 1..Len(rows) |-> Get(rows[r], "_sourceTable").s])

\* The category field of the request.
CategoryField == IF input.visualization.xAxis # "" THEN input.visualization.xAxis
                 ELSE input.fields[1]

\* The value field the request names for a table ("" when it names none).
NamedValueField(table) ==
    FindFirst(input.visualization.valueFields,
              LAMBDA f : f \in DOMAIN FIELD_TABLE_MAP /\ table \in OwningTables(f))

\* The number a value stands for in a series: itself when it is a number,
\* the number a string spells, else 0.
NumericYValue(v) ==
    IF v.t = "number" THEN v
    ELSE IF v.t = "string" /\ ParseFloat(v).t = "number" THEN ParseFloat(v)
    ELSE Num(0)

\* C17: a cross-table comparison payload has one series per source table,
\* every series has a value for every label, and where the request names the
\* value field of the table the value is the numeric Y value of the first
\* row of the table whose category value has the label as its string form,
\* or 0 when the table has no such row.
C17_SeriesAlignedWithLabels ==
    ComparisonReturned =>
        LET tables == SourceTables(input.rows)
            labels == output.result.labels
            series == output.result.datasets
        IN  /\ Len(series) = Len(tables)
            /\ \A d \in 1..Len(series) :
                  /\ \E t \in 1..Len(tables) : series[d].label = Capitalize(tables[t])
                  /\ Len(series[d].data) = Len(labels)
            /\ \A d \in 1..Len(series), t \in 1..Len(tables), l \in 1..Len(labels) :
                  (/\ series[d].label = Capitalize(tables[t])
                   /\ NamedValueField(tables[t]) # ""
                   /\ l <= Len(series[d].data)) =>
                      LET matching ==
                              SelectSeq(input.rows, LAMBDA row :
                                  /\ Get(row, "_sourceTable") = Str(tables[t])
                                  /\ JsString(Get(row, CategoryField)) = labels[l])
                      IN  series[d].data[l]
                              = IF matching = <<>> THEN Num(0)
                                ELSE NumericYValue(Get(matching[1], NamedValueField(tables[t])))

\* C18: a multi-series chart over one table has one series per value field
\* of the request, each with one value per label.
C18_OneSeriesPerValueField ==
    (/\ ShapeReturned
     /\ input.tableCount = 1
     /\ input.visualization.type = "multi-bar"
     /\ Len(input.rows) > 0
     /\ input.visualization.valueFields # <<>>
     /\ \A f \in 1..Len(input.visualization.valueFields) :
           Includes(input.fields, input.visualization.valueFields[f])) =>
        /\ Len(output.result.datasets) = Len(input.visualization.valueFields)
        /\ \A d \in 1..Len(output.result.datasets) :
              Len(output.result.datasets[d].data) = Len(output.result.labels)

\* C19: a flat-table payload has as columns the keys of the first resolved
\* row without the source-table tag, or the requested fields when there are
\* no rows.
C19_ColumnsAreKeysOfFirstRow ==
    (pc = "done" /\ response.success /\ response.data.type = "table") =>
        response.data.fields
            = IF Len(response.data.data) > 0
              THEN SelectSeq(Keys(response.data.data[1]), LAMBDA k : k # "_sourceTable")
              ELSE req.fields

\* ------------------------------------------------------------ chart scores
\* Field type classifications.
FIELD_CATEGORIES ==
    [ identifiers  |-> <<"id", "productId", "customerId", "factory", "region">>,
      measurements |-> <<"quantity", "amount", "defectCount">>,
      timestamps   |-> <<"date", "createdAt", "updatedAt">>,
      categories   |-> <<"type", "severity", "shift", "channel", "salesRep", "inspector">> ]

Min2(a, b) == IF a < b THEN a ELSE b

Max2(a, b) == IF a > b THEN a ELSE b

\* FieldValidationService.calculateChartScore
calculateChartScore(selectedFields, chartType) ==
    LET rules == CHART_COMPATIBILITY[ChartKey(chartType)]
        fieldCount == Len(selectedFields)
        optimalCount == (rules.minFields + rules.maxFields) \div 2
        fieldCountScore == Max2(0, 30 - Abs(fieldCount - optimalCount) * 5)
        xAxisFields ==
            Len(SelectSeq(selectedFields, LAMBDA field : Includes(rules.xAxis, field.type)))
        yAxisFields ==
            Len(SelectSeq(selectedFields, LAMBDA field : Includes(rules.yAxis, field.type)))
        typeScore ==
            IF chartType # "table"
            THEN Min2(xAxisFields * 10, 20) + Min2(yAxisFields * 15, 30) ELSE 0
        Has(category) ==
            \E f \in 1..Len(selectedFields) : Includes(category, selectedFields[f].name)
        hasIdentifier == Has(FIELD_CATEGORIES.identifiers)
        hasMeasurement == Has(FIELD_CATEGORIES.measurements)
        hasTimestamp == Has(FIELD_CATEGORIES.timestamps)
        score ==
            50 + fieldCountScore + typeScore
               + (IF chartType = "line" /\ hasTimestamp THEN 20 ELSE 0)
               + (IF chartType \in {"bar", "pie"} /\ hasIdentifier /\ hasMeasurement
                  THEN 15 ELSE 0)
    IN  Min2(score, 100)

\* Object.entries(CHART_COMPATIBILITY): the chart types in the order of the
\* object literal.
ChartTypeOrder ==
    <<"bar", "multi-bar", "comparison-chart", "grouped-table", "line", "pie", "table">>

\* recommendations.sort((a, b) => b.score - a.score): descending by score,
\* equal scores keep their order.
RECURSIVE SortByScore(_)
SortByScore(recs) ==
    IF recs = <<>> THEN <<>>
    ELSE LET best ==
                 CHOOSE k \in 1..Len(recs) :
                     /\ \A m \in 1..Len(recs) : recs[m].score <= recs[k].score
                     /\ \A m \in 1..(k - 1) : recs[m].score < recs[k].score
         IN  <<recs[best]>>
                 \o SortByScore(SubSeq(recs, 1, best - 1) \o SubSeq(recs, best + 1, Len(recs)))

\* FieldValidationService.getRecommendedChartTypes
getRecommendedChartTypes(selectedFields, selectedTables) ==
    LET valid ==
            SelectSeq(ChartTypeOrder, LAMBDA chartType :
                validateFieldsForChart(selectedFields, chartType, selectedTables).isValid)
    IN  SortByScore([v \in 1..Len(valid) |->
                        [type |-> valid[v],
                         score |-> calculateChartScore(selectedFields, valid[v]),
                         reasoning |-> "",
                         performanceNote |-> FALSE]])

\* Common report patterns, in the order of the object literal.
REPORT_PATTERNS ==
    << [key |-> "timeSeriesAnalysis", requiredFieldTypes |-> <<"object", "number">>,
        optionalFieldTypes |-> <<"string">>, recommendedCharts |-> <<"line", "bar">>],
       [key |-> "categoryComparison", requiredFieldTypes |-> <<"string", "number">>,
        optionalFieldTypes |-> <<"object">>, recommendedCharts |-> <<"bar", "pie">>],
       [key |-> "distributionAnalysis", requiredFieldTypes |-> <<"string", "number">>,
        optionalFieldTypes |-> <<>>, recommendedCharts |-> <<"pie", "bar">>],
       [key |-> "correlationAnalysis", requiredFieldTypes |-> <<"number", "number">>,
        optionalFieldTypes |-> <<"string">>, recommendedCharts |-> <<"line", "bar">>],
       [key |-> "detailedInspection", requiredFieldTypes |-> <<>>,
        optionalFieldTypes |-> <<"string", "number", "object">>,
        recommendedCharts |-> <<"table">>] >>

\* field.name.toLowerCase()
ToLowerCase(name) ==
    CASE name = "productId"   -> "productid"
      [] name = "defectCount" -> "defectcount"
      [] OTHER                -> name

\* RecommendationEngine.identifyPatterns: the patterns whose required field
\* types are all selected, best first. A pattern's score can end in .5
\* (the optimal field count counts half of the optional types), so the
\* record holds twice the score.
identifyPatterns(selectedFields) ==
    LET fieldTypes == [f \in 1..Len(selectedFields) |-> selectedFields[f].type]
        fieldNames == [f \in 1..Len(selectedFields) |-> ToLowerCase(selectedFields[f].name)]
        HasName(names) == \E f \in 1..Len(fieldNames) : fieldNames[f] \in names
        matching ==
            SelectSeq(REPORT_PATTERNS, LAMBDA pattern :
                \A t \in 1..Len(pattern.requiredFieldTypes) :
                    Includes(fieldTypes, pattern.requiredFieldTypes[t]))
        Twice(pattern) ==
            100 + Max2(0, 60 - Abs(2 * Len(selectedFields)
                                     - (2 * Len(pattern.requiredFieldTypes)
                                          + Len(pattern.optionalFieldTypes))) * 5)
                + (IF pattern.key = "timeSeriesAnalysis"
                      /\ HasName({"date", "createdat", "updatedat", "time"})
                   THEN 40 ELSE 0)
                + (IF pattern.key = "categoryComparison"
                      /\ HasName({"factory", "region", "type", "channel"})
                   THEN 30 ELSE 0)
                + (IF HasName({"quantity", "amount", "count", "defectcount"}) THEN 20 ELSE 0)
    IN  SortByScore([m \in 1..Len(matching) |->
                        [key |-> matching[m].key,
                         recommendedCharts |-> matching[m].recommendedCharts,
                         score |-> Min2(Twice(matching[m]), 200)]])

\* RecommendationEngine.analyzePerformance(...).complexity
analyzePerformance(selectedFields, selectedTables) ==
    LET fieldCount == Len(selectedFields)
        tableCount == Len(selectedTables)
        estimatedRecords == tableCount * 1000
    IN  IF tableCount > 2 \/ fieldCount > 10 \/ estimatedRecords > 5000 THEN "high"
        ELSE IF tableCount = 2 \/ fieldCount > 5 \/ estimatedRecords > 1000 THEN "medium"
        ELSE "low"

\* RecommendationEngine.getSmartChartRecommendations
getSmartChartRecommendations(selectedFields, selectedTables) ==
    LET basicRecs == getRecommendedChartTypes(selectedFields, selectedTables)
        patterns == identifyPatterns(selectedFields)
        Enhanced(rec) ==
            LET supportingPatterns ==
                    SelectSeq(patterns, LAMBDA pattern :
                        Includes(pattern.recommendedCharts, rec.type))
                tableBonus ==
                    analyzePerformance(selectedFields, selectedTables) = "high"
                        /\ rec.type = "table"
            IN  [type |-> rec.type,
                 score |-> rec.score
                              + (IF Len(supportingPatterns) > 0 THEN 10 ELSE 0)
                              + (IF tableBonus THEN 15 ELSE 0),
                 reasoning |-> IF Len(supportingPatterns) > 0
                               THEN supportingPatterns[1].key ELSE "",
                 performanceNote |-> tableBonus]
    IN  SortByScore([r \in 1..Len(basicRecs) |-> Enhanced(basicRecs[r])])

\* ------------------------------------------------- scoring on its own
InitScore ==
    /\ HandlerIdle
    /\ ServiceIdle
    /\ pc = "call"
    /\ output = NoCall
    /\ \E selectedFields \in FieldSelections :
        \/ \E c \in 1..Len(ChartTypeOrder) :
              input = [fn |-> "calculateChartScore", selectedFields |-> selectedFields,
                       chartType |-> ChartTypeOrder[c]]
        \/ \E selectedTables \in ChartTables :
              input = [fn |-> "getSmartChartRecommendations",
                       selectedFields |-> selectedFields,
                       selectedCollections |-> selectedTables]

CallCalculateChartScore ==
    /\ pc = "call"
    /\ input.fn = "calculateChartScore"
    /\ output' = [fn |-> "calculateChartScore",
                  result |-> calculateChartScore(input.selectedFields, input.chartType)]
    /\ pc' = "returned"
    /\ UNCHANGED <<input, handlerVars, serviceVars>>

CallGetSmartChartRecommendations ==
    /\ pc = "call"
    /\ input.fn = "getSmartChartRecommendations"
    /\ output' = [fn |-> "getSmartChartRecommendations",
                  result |-> getSmartChartRecommendations(input.selectedFields,
                                                          input.selectedCollections)]
    /\ pc' = "returned"
    /\ UNCHANGED <<input, handlerVars, serviceVars>>

NextScore == CallCalculateChartScore \/ CallGetSmartChartRecommendations

SpecScore == InitScore /\ [][NextScore]_vars

\* C20: every score of a visualization type lies in 0..100: the score of
\* calculateChartScore and the score of every smart chart recommendation.
C20_ScoresWithin0And100 ==
    pc = "returned" =>
        /\ output.fn = "calculateChartScore" => output.result \in 0..100
        /\ output.fn = "getSmartChartRecommendations" =>
              \A r \in 1..Len(output.result) : output.result[r].score \in 0..100

\* C21: the score of a field selection for a visualization type is at least
\* the base of 50 when validateFieldsForChart accepts the combination and is
\* 0 when it rejects it.
C21_BaseScore50WhenValidElse0 ==
    (pc = "returned" /\ output.fn = "calculateChartScore") =>
        IF validateFieldsForChart(input.selectedFields, input.chartType, <<>>).isValid
        THEN output.result >= 50
        ELSE output.result = 0

\* ------------------------------------- the handler and its tracking calls
\* Requests whose dataModel.collections is an array or the string
\* 'production'.
TrackingRequests ==
    [ collections   : DistinctSeqs(RequestTables, MaxTables) \cup {ProductionString},
      fields        : DistinctSeqs(RequestFields, MaxFields),
      aggregations  : {<<>>},
      visualization : RequestVisualizations,
      filters       : {NoFilters, Filters(1, 2, "A", "North", "P1")} ]

InitTracking ==
    /\ req \in TrackingRequests
    /\ selectedCollections = req.collections
    /\ pc = "start"
    /\ tableIndex = 1
    /\ where = EmptyWhere
    /\ allResults = <<>>
    /\ data = <<>>
    /\ findAllLog = <<>>
    /\ failedTables = {}
    /\ events = <<>>
    /\ response = NoResponse
    /\ input = NoCall
    /\ output = NoCall
    /\ ServiceIdle

SpecTracking == InitTracking /\ [][Next]_vars

\* Nothing but the tracking calls stands between the request and a report:
\* the checks and the field validation pass, no findAll has failed and the
\* resolved rows can be shaped.
OtherwiseValid ==
    /\ ValidationRuns
    /\ ~FieldValidationThrows(req.fields, req.collections)
    /\ FieldErrors(req.fields, req.collections) = <<>>
    /\ failedTables = {}
    /\ ~ShapeThrows(data, req.fields, req.visualization, Len(req.collections))

\* C22: a failure raised inside the tracking calls of generateReport never
\* turns an otherwise valid request into a failed response: once such a
\* request is answered, it is answered with success = true.
C22_TrackingFailureNeverFailsTheReport ==
    (pc = "done" /\ OtherwiseValid /\ TrackQueryPerformanceThrows(req.collections)) =>
        response.success

\* ------------------------------------------- field validation on its own
\* validateFieldSelections of the earlier controller revision: the errors
\* of the validation loop and a warning for every field that more than one
\* selected table owns. threw: an iteration threw a TypeError.
validateFieldSelections(selectedTables, selectedFields) ==
    LET threw == FieldValidationThrows(selectedFields, selectedTables)
        errors == IF threw THEN <<>> ELSE FieldErrors(selectedFields, selectedTables)
        ambiguous ==
            SelectSeq(selectedFields, LAMBDA field :
                /\ FieldOutcome(field, selectedTables) = "none"
                /\ Len(CompatibleTables(field, selectedTables)) > 1)
        warnings ==
            IF threw THEN <<>>
            ELSE [w \in 1..Len(ambiguous) |->
                     [kind |-> "multiple", field |-> ambiguous[w],
                      tables |-> CompatibleTables(ambiguous[w], selectedTables)]]
    IN  [threw |-> threw, isValid |-> ~threw /\ Len(errors) = 0,
         errors |-> errors, warnings |-> warnings]

\* The validation loop of generateReport: it collects errors and has no
\* warnings array; the request goes on when there is no error.
FieldValidation(selectedTables, fields) ==
    LET threw == FieldValidationThrows(fields, selectedTables)
        errors == IF threw THEN <<>> ELSE FieldErrors(fields, selectedTables)
    IN  [threw |-> threw, isValid |-> ~threw /\ Len(errors) = 0,
         errors |-> errors, warnings |-> <<>>]

InitValidation ==
    /\ HandlerIdle
    /\ ServiceIdle
    /\ pc = "call"
    /\ output = NoCall
    /\ \E fn \in {"validateFieldSelections", "generateReport"},
          selectedTables \in DistinctSeqs(RequestTables, MaxTables),
          fields \in DistinctSeqs(RequestFields, MaxFields) :
              /\ Len(selectedTables) > 0
              /\ Len(fields) > 0
              /\ input = [fn |-> fn, selectedCollections |-> selectedTables, fields |-> fields]

CallValidateFieldSelections ==
    /\ pc = "call"
    /\ input.fn = "validateFieldSelections"
    /\ output' = [fn |-> input.fn,
                  result |-> validateFieldSelections(input.selectedCollections, input.fields)]
    /\ pc' = "returned"
    /\ UNCHANGED <<input, handlerVars, serviceVars>>

CallFieldValidation ==
    /\ pc = "call"
    /\ input.fn = "generateReport"
    /\ output' = [fn |-> input.fn,
                  result |-> FieldValidation(input.selectedCollections, input.fields)]
    /\ pc' = "returned"
    /\ UNCHANGED <<input, handlerVars, serviceVars>>

NextValidation == CallValidateFieldSelections \/ CallFieldValidation

SpecValidation == InitValidation /\ [][NextValidation]_vars

\* The fields of the call that more than one of its tables owns.
AmbiguousFields ==
    { input.fields[f] : f \in { k \in 1..Len(input.fields) :
        /\ MapLookupKind(input.fields[k]) = "array"
        /\ Cardinality(OwningTables(input.fields[k])
               \cap { input.selectedCollections[t] :
                        t \in 1..Len(input.selectedCollections) }) > 1 } }

\* C23: when the validation has run to its end, every requested field that
\* more than one requested table owns has a warning and no error.
C23_AmbiguousFieldWarnsWithoutError ==
    (pc = "returned" /\ ~output.result.threw) =>
        \A field \in AmbiguousFields :
            /\ \E w \in 1..Len(output.result.warnings) : output.result.warnings[w].field = field
            /\ \A e \in 1..Len(output.result.errors) : output.result.errors[e].field # field

\* The columns the models declare as numbers (INTEGER, DECIMAL), the row id
\* left aside.
NumericColumns == {"quantity", "defectCount", "amount"}

\* The first requested field that is a numeric column of the table ("" when
\* there is none).
FirstNumericField(table) ==
    FindFirst(input.fields, LAMBDA f : OwnedBy(f, table) /\ f \in NumericColumns)

\* C24: in a cross-table comparison the Y field chosen for a table is the
\* first value field of the request that the table owns and, when there is
\* none, the first requested numeric field that the table owns.
C24_YFieldIsValueFieldElseFirstNumeric ==
    ComparisonReturned =>
        \A d \in 1..Len(output.result.debugInfo) :
            LET table == output.result.debugInfo[d].table
                chosen == output.result.debugInfo[d].chosenYField
            IN  chosen = IF NamedValueField(table) # "" THEN NamedValueField(table)
                         ELSE FirstNumericField(table)

\* C25: the groups of a grouped-table payload come in the order in which
\* their group values first occur in the resolved rows.
C25_GroupsInFirstOccurrenceOrder ==
    (ShapeReturned /\ output.result.type = "grouped-table") =>
        [g \in 1..Len(output.result.groups) |-> output.result.groups[g].key]
            = Unique([r \in 1..Len(input.rows) |->
                         StringFormOrUnspecified(input.rows[r], output.result.groupBy)])

\* No requested field holds a number in any resolved row.
NoNumericField ==
    \A f \in 1..Len(input.fields), r \in 1..Len(input.rows) :
        Get(input.rows[r], input.fields[f]).t # "number"

\* C26: a chart request without a Y axis whose requested fields hold no
\* number in the data is shaped without failure: the Y field of the payload
\* is the first requested field and every value is 0.
C26_NoNumericFieldFallsBackToFirstField ==
    (/\ pc = "returned"
     /\ output.fn = "shape"
     /\ input.visualization.type \in {"bar", "line", "pie"}
     /\ input.visualization.yAxis = ""
     /\ Len(input.rows) > 0
     /\ NoNumericField) =>
        /\ ~output.threw
        /\ Len(output.result.datasets) = 1
        /\ output.result.datasets[1].label = input.fields[1]
        /\ \A l \in 1..Len(output.result.datasets[1].data) :
              output.result.datasets[1].data[l] = Num(0)

\* C27: in every chart payload of the handler, single series or cross-table
\* comparison, each dataset has exactly as many values as the payload has
\* labels.
C27_EveryDatasetAsLongAsLabels ==
    (ShapeReturned /\ output.result.type \in {"bar", "line", "pie", "multi-bar"}) =>
        \A d \in 1..Len(output.result.datasets) :
            Len(output.result.datasets[d].data) = Len(output.result.labels)

\* C28: in a cross-table comparison the label made from the category value
\* of a row finds the row's table again: for every row of a table whose
\* label lies within the label cap, the series of the table holds at that
\* label the Y value of the first row of the table with that label.
C28_LabelFindsItsRow ==
    ComparisonReturned =>
        \A d \in 1..Len(output.result.datasets) :
          \A l \in 1..Len(output.result.datasets[d].data) :
            LET table == output.result.debugInfo[d].table
                yField == output.result.debugInfo[d].chosenYField
                labelled ==
                    SelectSeq(input.rows, LAMBDA row :
                        /\ SourceTableOf(row) = table
                        /\ CrossTableLabel(row, CategoryField) = output.result.labels[l])
            IN  labelled # <<>> =>
                    output.result.datasets[d].data[l] = NumberOrZero(Get(labelled[1], yField))

\* ------------------------------------------ the analytics metrics store
\* The number of recordEvent calls a run makes.
MaxCalls == 4

\* Cleanup old events (keep last 1000)
MaxMetrics == 1000

\* event.type of the events the service records
EventTypes == {"report_generation", "query_performance"}

\* The event of the n-th recordEvent call.
Event(n, type, timestamp) == [id |-> n, type |-> type, timestamp |-> timestamp]

\* `${event.timestamp}_${event.type}`
MetricsKey(event) == <<event.timestamp, event.type>>

\* Map.prototype.set: the value of an existing key is replaced where the key
\* stands, a new key is added at the end.
MapSet(map, key, value) ==
    IF \E i \in 1..Len(map) : map[i].key = key
    THEN [i \in 1..Len(map) |->
             IF map[i].key = key THEN [key |-> key, value |-> value] ELSE map[i]]
    ELSE Append(map, [key |-> key, value |-> value])

\* AnalyticsService.recordEvent: the metrics after the call.
recordEvent(map, event) ==
    LET stored == MapSet(map, MetricsKey(event), event)
    IN  IF Len(stored) > MaxMetrics THEN Tail(stored) ELSE stored

\* Two events less than the store keeps.
AlmostFull == MaxMetrics - 2

\* A store that n calls in n different milliseconds have filled.
Filled(n) ==
    [i \in 1..n |->
        [key |-> MetricsKey(Event(i, "report_generation", i)),
         value |-> Event(i, "report_generation", i)]]

\* The service is new, or has recorded two events less than the store keeps.
InitMetrics ==
    /\ HandlerIdle
    /\ pc = "call"
    /\ input = NoCall
    /\ output = NoCall
    /\ \E n \in {0, AlmostFull} :
          /\ metrics = Filled(n)
          /\ clock = n
          /\ recorded = n

\* One call of recordEvent, in the millisecond of the call before or in a
\* later one.
RecordEvent ==
    /\ recorded \notin {MaxCalls, AlmostFull + MaxCalls}
    /\ \E type \in EventTypes, elapsed \in {0, 1} :
          /\ clock' = clock + elapsed
          /\ recorded' = recorded + 1
          /\ metrics' = recordEvent(metrics, Event(recorded + 1, type, clock + elapsed))
    /\ UNCHANGED <<pc, input, output, handlerVars>>

NextMetrics == RecordEvent

SpecMetrics == InitMetrics /\ [][NextMetrics]_vars

\* The smaller of the number of calls and the size the store keeps.
Kept == IF recorded < MaxMetrics THEN recorded ELSE MaxMetrics

\* C29: after n recordEvent calls the metrics store holds exactly the most
\* recent min(n, 1000) recorded events, in the order of their recording.
C29_StoreHoldsMostRecentEvents ==
    [i \in 1..Len(metrics) |-> metrics[i].value.id]
        = [i \in 1..Kept |-> recorded - Kept + i]

\* ------------------------------------------- the client reports service
\* reportConfig.visualization as the canvas sends it ("" stands for a
\* setting that is not there).
ReportConfigs ==
    [ type   : {"table", "bar", "line", "pie", "multi-bar", "grouped-table", "bubble", "scatter"},
      xAxis  : {"", "productId"},
      yAxis  : {"", "quantity"},
      radius : {"", "quantity"} ]

NoClientError == [message |-> "", hasResponse |-> FALSE, responseError |-> ""]

\* new Error(message): an error without a response
ClientError(message) == [message |-> message, hasResponse |-> FALSE, responseError |-> ""]

\* What api.post rejects with: no response at all, or the response of the
\* server with its error text ("" when the body has none).
AxiosErrors ==
    { [message |-> "Network Error", hasResponse |-> FALSE, responseError |-> ""],
      [message |-> "Request failed with status code 400", hasResponse |-> TRUE,
       responseError |-> "Field validation failed"],
      [message |-> "Request failed with status code 500", hasResponse |-> TRUE,
       responseError |-> "Failed to generate report"],
      [message |-> "Request failed with status code 502", hasResponse |-> TRUE,
       responseError |-> ""] }

\* Validate visualization fields before sending: the error thrown, if any.
VisualizationError(visualization) ==
    IF visualization.type = "table" THEN NoClientError
    ELSE IF visualization.xAxis = "" \/ visualization.yAxis = ""
    THEN ClientError("X-Axis and Y-Axis fields are required for chart visualizations")
    ELSE IF visualization.type \in {"bubble", "scatter"} /\ visualization.radius = ""
    THEN ClientError("Radius field is required for Bubble and Scatter chart visualizations")
    ELSE NoClientError

\* catch (error): throw new Error(error.response?.data?.error || "Failed to
\* generate report")
Rethrown(error) ==
    IF error.hasResponse /\ error.responseError # "" THEN error.responseError
    ELSE "Failed to generate report"

InitClient ==
    /\ HandlerIdle
    /\ ServiceIdle
    /\ pc = "call"
    /\ output = NoCall
    /\ \E visualization \in ReportConfigs :
          input = [fn |-> "reportsService.generateReport", visualization |-> visualization]

\* The validation throws inside the try block: nothing is sent and the catch
\* block throws its own error.
ClientValidationThrows ==
    /\ pc = "call"
    /\ input.fn = "reportsService.generateReport"
    /\ VisualizationError(input.visualization) # NoClientError
    /\ output' = [fn |-> input.fn, sent |-> FALSE, threw |-> TRUE,
                  caught |-> VisualizationError(input.visualization),
                  message |-> Rethrown(VisualizationError(input.visualization))]
    /\ pc' = "returned"
    /\ UNCHANGED <<input, handlerVars, serviceVars>>

\* api.post("/reports/generate-report", reportConfig)
ClientPosts ==
    /\ pc = "call"
    /\ input.fn = "reportsService.generateReport"
    /\ VisualizationError(input.visualization) = NoClientError
    /\ output' = [fn |-> input.fn, sent |-> TRUE, threw |-> FALSE,
                  caught |-> NoClientError, message |-> ""]
    /\ pc' = "posted"
    /\ UNCHANGED <<input, handlerVars, serviceVars>>

\* The request resolves: return response.data
ClientPostResolves ==
    /\ pc = "posted"
    /\ pc' = "returned"
    /\ UNCHANGED <<input, output, handlerVars, serviceVars>>

\* The request rejects: the catch block throws its own error.
ClientPostRejects ==
    /\ pc = "posted"
    /\ \E error \in AxiosErrors :
          output' = [output EXCEPT !.threw = TRUE, !.caught = error,
                                   !.message = Rethrown(error)]
    /\ pc' = "returned"
    /\ UNCHANGED <<input, handlerVars, serviceVars>>

NextClient ==
    \/ ClientValidationThrows
    \/ ClientPosts
    \/ ClientPostResolves
    \/ ClientPostRejects

SpecClient == InitClient /\ [][NextClient]_vars

\* C30: when a visualization other than a table lacks its X axis or its Y
\* axis, the client sends no request and the error the caller gets has the
\* message "X-Axis and Y-Axis fields are required for chart visualizations".
C30_MissingAxisErrorReachesCaller ==
    (/\ pc = "returned"
     /\ input.visualization.type # "table"
     /\ (input.visualization.xAxis = "" \/ input.visualization.yAxis = "")) =>
        /\ ~output.sent
        /\ output.threw
        /\ output.message = "X-Axis and Y-Axis fields are required for chart visualizations"

====
